---- MODULE Spec2Model ----
(***************************************************************************)
(* The bytecode optimizer of lib/compiler: the formatted-bytecode codec,   *)
(* the abstract interpreter InterpState, the peephole visitors, the        *)
(* dead-slot pass and the optimizeBlock / optimizeBytecode drivers.        *)
(*                                                                         *)
(* Conventions.  A JS array is a TLA+ sequence, so every index is the JS   *)
(* index plus one (ip = 1 is the first element of a block).  A formatted   *)
(* element [opcode, ...numbers, ...blocks] is the record                   *)
(* [op, args, blocks].  An InterpType {type, value} is [type, value]       *)
(* where value = 0 stands for "no value" and a positive number for the     *)
(* identity of a JS object; fresh objects take their identity from the     *)
(* counter nid carried in the state.  A thrown error is recorded in the    *)
(* field err of the state ("" when nothing was thrown).                    *)
(***************************************************************************)
EXTENDS Integers, Sequences, FiniteSets, TLC

VARIABLES pc, bytecode, fbc, changes, out, err, nodead, passes, round, prev,
          rules, output, idx

vars == <<pc, bytecode, fbc, changes, out, err, nodead, passes, round, prev,
          rules, output, idx>>

(***************************************************************************)
(* Opcodes and type tags                                                   *)
(***************************************************************************)
op == [ PUSH_UNDEFINED |-> 1, PUSH_NULL |-> 2, PUSH_FAILED |-> 3,
        PUSH_EMPTY_ARRAY |-> 4, PUSH_CURR_POS |-> 5, POP |-> 6,
        POP_CURR_POS |-> 7, POP_N |-> 8, NIP |-> 9, APPEND |-> 10,
        WRAP |-> 11, TEXT |-> 12, IF_ |-> 13, IF_ERROR |-> 14,
        IF_NOT_ERROR |-> 15, WHILE_NOT_ERROR |-> 16, MATCH_ANY |-> 17,
        MATCH_STRING |-> 18, MATCH_STRING_IC |-> 19, MATCH_CHAR_CLASS |-> 20,
        ACCEPT_N |-> 21, ACCEPT_STRING |-> 22, FAIL |-> 23,
        LOAD_SAVED_POS |-> 24, UPDATE_SAVED_POS |-> 25, CALL |-> 26,
        RULE |-> 27, SILENT_FAILS_ON |-> 28, SILENT_FAILS_OFF |-> 29,
        IF_LT |-> 30, IF_GE |-> 31, IF_LT_DYNAMIC |-> 32,
        IF_GE_DYNAMIC |-> 33, PUSH_EMPTY_STRING |-> 35, PLUCK |-> 36,
        SOURCE_MAP_PUSH |-> 37, SOURCE_MAP_POP |-> 38,
        SOURCE_MAP_LABEL_PUSH |-> 39, SOURCE_MAP_LABEL_POP |-> 40 ]

TypeTag == [ UNDEFINED |-> 1, NULL |-> 2, FAILED |-> 4, OFFSET |-> 8,
             ARRAY |-> 16, STRING |-> 32, ANY |-> 127 ]

\* a & b on non-negative integers
RECURSIVE BitAnd(_, _)
BitAnd(a, b) ==
  IF a = 0 \/ b = 0 THEN 0
  ELSE (a % 2) * (b % 2) + 2 * BitAnd(a \div 2, b \div 2)

\* a | b
BitOr(a, b) == a + b - BitAnd(a, b)

\* a & ~m
AndNot(a, m) == a - BitAnd(a, m)

\* !(u & (u - 1)): u is zero or has a single bit
SingleBit(u) == u = 0 \/ BitAnd(u, u - 1) = 0

Min(a, b) == IF a < b THEN a ELSE b
Max(a, b) == IF a > b THEN a ELSE b

\* Array.prototype.splice(start, len, ...repl), start counted from 1
Splice(s, start, len, repl) ==
  SubSeq(s, 1, start - 1) \o repl \o SubSeq(s, start + len, Len(s))

(***************************************************************************)
(* Formatted bytecode                                                      *)
(***************************************************************************)
Flat(o, a) == [op |-> o, args |-> a, blocks |-> <<>>]
Cond(o, a, t, e) == [op |-> o, args |-> a, blocks |-> <<t, e>>]
Loop(b) == [op |-> op.WHILE_NOT_ERROR, args |-> <<>>, blocks |-> <<b>>]

Cond0Opcodes == {op.IF_, op.IF_ERROR, op.IF_NOT_ERROR, op.MATCH_ANY}
Cond1Opcodes == {op.IF_GE, op.IF_GE_DYNAMIC, op.IF_LT, op.IF_LT_DYNAMIC,
                 op.MATCH_STRING, op.MATCH_STRING_IC, op.MATCH_CHAR_CLASS}

\* the number of arguments of a conditional opcode; -1 stands for the throw
getConditionalArgCount(bc) ==
  IF bc \in Cond0Opcodes THEN 0
  ELSE IF bc \in Cond1Opcodes THEN 1
  ELSE -1

\* [thenCode, elseCode]: the last two entries of the element
getConditionalCode(bc) ==
  <<bc.blocks[Len(bc.blocks) - 1], bc.blocks[Len(bc.blocks)]>>

\* opcodes formatBytecode copies with 0 and with 1 argument
FormatLen1 == {op.PUSH_EMPTY_STRING, op.PUSH_CURR_POS, op.PUSH_UNDEFINED,
               op.PUSH_NULL, op.PUSH_FAILED, op.PUSH_EMPTY_ARRAY, op.POP,
               op.POP_CURR_POS, op.NIP, op.APPEND, op.TEXT,
               op.SILENT_FAILS_ON, op.SILENT_FAILS_OFF, op.UPDATE_SAVED_POS,
               op.SOURCE_MAP_POP}
FormatLen2 == {op.POP_N, op.WRAP, op.ACCEPT_N, op.ACCEPT_STRING, op.FAIL,
               op.LOAD_SAVED_POS, op.RULE, op.SOURCE_MAP_PUSH,
               op.SOURCE_MAP_LABEL_POP}

\* bc[i] of a flat stream; reading past the end gives 0 (no well-formed
\* stream makes formatBytecode do so)
At(bc, i) == IF i >= 1 /\ i <= Len(bc) THEN bc[i] ELSE 0

\* push(cur, n) with the slice ending one entry early
FormatPushShort(bc, ip, n) == Flat(bc[ip], SubSeq(bc, ip + 1, Min(ip + n - 2, Len(bc))))

\* formatBytecode's push(cur, n): [cur, ...bc.slice(ip + 1, ip + n)]
FormatPush(bc, ip, n) == Flat(bc[ip], SubSeq(bc, ip + 1, Min(ip + n - 1, Len(bc))))

\* The flat stream to the tree.  The result is [err, fbc]; err is TRUE when
\* an invalid opcode was met.
RECURSIVE formatBytecode(_)
RECURSIVE FormatFrom(_, _, _)
FormatFrom(bc, ip, result) ==
  IF ip > Len(bc) THEN [err |-> FALSE, fbc |-> result]
  ELSE LET cur == bc[ip] IN
    IF cur \in FormatLen1 THEN
      FormatFrom(bc, ip + 1, Append(result, FormatPush(bc, ip, 1)))
    ELSE IF cur \in FormatLen2 THEN
      FormatFrom(bc, ip + 2, Append(result, FormatPush(bc, ip, 2)))
    ELSE IF cur = op.SOURCE_MAP_LABEL_PUSH THEN
      FormatFrom(bc, ip + 4, Append(result, FormatPush(bc, ip, 4)))
    ELSE IF cur = op.PLUCK THEN
      LET paramsLength == At(bc, ip + 2) IN
      FormatFrom(bc, ip + 3 + paramsLength,
                 Append(result, FormatPush(bc, ip, 3 + paramsLength)))
    ELSE IF cur = op.CALL THEN
      LET n == 4 + At(bc, ip + 3) IN
      FormatFrom(bc, ip + n, Append(result, FormatPush(bc, ip, n)))
    ELSE IF cur \in Cond0Opcodes \cup Cond1Opcodes THEN
      LET argCount   == getConditionalArgCount(cur)
          baseLength == argCount + 3
          thenLength == At(bc, ip + baseLength - 2)
          elseLength == At(bc, ip + baseLength - 1)
          elseStart  == ip + baseLength + thenLength
          elseEnd    == elseStart + elseLength
          thenClause == formatBytecode(SubSeq(bc, ip + baseLength,
                                              Min(elseStart - 1, Len(bc))))
          elseClause == formatBytecode(SubSeq(bc, elseStart,
                                              Min(elseEnd - 1, Len(bc))))
      IN IF thenClause.err \/ elseClause.err
         THEN [err |-> TRUE, fbc |-> result]
         ELSE FormatFrom(bc, elseEnd,
                Append(result,
                  Cond(cur, SubSeq(bc, ip + 1, ip + argCount),
                       thenClause.fbc, elseClause.fbc)))
    ELSE IF cur = op.WHILE_NOT_ERROR THEN
      LET end  == ip + At(bc, ip + 1) + 2
          body == formatBytecode(SubSeq(bc, ip + 2, Min(end - 1, Len(bc))))
      IN IF body.err THEN [err |-> TRUE, fbc |-> result]
         ELSE FormatFrom(bc, end, Append(result, Loop(body.fbc)))
    ELSE [err |-> TRUE, fbc |-> result]

formatBytecode(bc) == FormatFrom(bc, 1, <<>>)

\* The tree to the flat stream.  The result is [err, flat]; err is TRUE when
\* an element violates the tree shape.
RECURSIVE flattenBc(_)
RECURSIVE FlattenFrom(_, _, _)
FlattenFrom(tree, i, result) ==
  IF i > Len(tree) THEN [err |-> FALSE, flat |-> result]
  ELSE LET e == tree[i]
           n == Len(e.blocks)
           head == <<e.op>> \o e.args
       IN
    IF n = 0 THEN FlattenFrom(tree, i + 1, result \o head)
    ELSE LET bodies == [k \in 1..n |-> flattenBc(e.blocks[k])]
             shapeOk ==
               IF n = 1 THEN e.op = op.WHILE_NOT_ERROR
               ELSE /\ getConditionalArgCount(e.op) >= 0
                    /\ Len(e.args) = getConditionalArgCount(e.op)
                    /\ n = 2
         IN IF (\E k \in 1..n : bodies[k].err) \/ ~shapeOk
            THEN [err |-> TRUE, flat |-> result]
            ELSE LET lens == [k \in 1..n |-> Len(bodies[k].flat)]
                     RECURSIVE Cat(_)
                     Cat(k) == IF k > n THEN <<>> ELSE bodies[k].flat \o Cat(k + 1)
                 IN FlattenFrom(tree, i + 1, result \o head \o lens \o Cat(1))

flattenBc(tree) == FlattenFrom(tree, 1, <<>>)

(***************************************************************************)
(* InterpState: the state and its primitive operations                     *)
(***************************************************************************)
NoValue == [type |-> 0, value |-> 0]

\* constructor: empty stack, currPos a fresh OFFSET object, silentFails 0.
\* vis tells whether optimize-bytecode's preInterp / postInterp are installed;
\* ast is the sequence of the rules' match hints (<<>> for a null ast).
InterpState(ast, vis) ==
  [ stack |-> <<>>, currPos |-> [type |-> TypeTag.OFFSET, value |-> 1],
    silentFails |-> 0, looping |-> 0, vis |-> vis, ast |-> ast,
    ruleName |-> "rule", nid |-> 2, err |-> "" ]

Ok(st) == st.err = ""
Throw(st, e) == IF Ok(st) THEN [st EXCEPT !.err = e] ELSE st
\* throw new RangeError(`Rule '${this.ruleName}': ...`) and the same for Error
ThrowRangeError(st, msg) ==
  Throw(st, "RangeError: Rule '" \o st.ruleName \o "': " \o msg)
ThrowError(st, msg) ==
  Throw(st, "Error: Rule '" \o st.ruleName \o "': " \o msg)

\* copy(from): everything but this's own object counter and error
copy(this, from) ==
  [this EXCEPT !.stack = from.stack, !.currPos = from.currPos,
               !.silentFails = from.silentFails, !.looping = from.looping,
               !.vis = from.vis]

equalType(a, b) == a.type = b.type /\ a.value = b.value

\* a union that keeps the identity of its first argument
unionLeft(a, b) ==
  LET utype == BitOr(a.type, b.type) IN
  IF a.value # 0 /\ SingleBit(utype)
  THEN [type |-> utype, value |-> a.value]
  ELSE [type |-> utype, value |-> 0]

union(a, b) ==
  LET utype == BitOr(a.type, b.type) IN
  IF a.value # 0 /\ a.value = b.value /\ SingleBit(utype)
  THEN [type |-> utype, value |-> a.value]
  ELSE [type |-> utype, value |-> 0]

couldBe(t, types) == BitAnd(t.type, types) # 0
\* a mustBe that takes the empty tag for every kind
mustBeOrEmpty(t, types) == AndNot(t.type, types) = 0
mustBe(t, types) == AndNot(t.type, types) = 0 /\ t.type # 0
\* a test for truth that knows of arrays only
mustBeArray(t) == mustBe(t, TypeTag.ARRAY)
mustBeTrue(t) == mustBe(t, BitOr(TypeTag.ARRAY, TypeTag.FAILED))
\* mustBeFalse testing for null alone
mustBeNull(t) == mustBe(t, TypeTag.NULL)
mustBeFalse(t) == mustBe(t, BitOr(TypeTag.NULL, TypeTag.UNDEFINED))

push(st, value) == IF Ok(st) THEN [st EXCEPT !.stack = Append(@, value)] ELSE st

\* the value pop(), top() and inspect(depth) return (NoValue when they throw)
topValue(st) == IF Len(st.stack) > 0 THEN st.stack[Len(st.stack)] ELSE NoValue
inspectValue(st, depth) ==
  IF depth >= 0 /\ depth < Len(st.stack)
  THEN st.stack[Len(st.stack) - depth] ELSE NoValue

pop(st) ==
  IF ~Ok(st) THEN st
  ELSE IF Len(st.stack) = 0 THEN ThrowRangeError(st, "Trying to pop from an empty stack.")
  ELSE [st EXCEPT !.stack = SubSeq(@, 1, Len(@) - 1)]

top(st) ==
  IF Ok(st) /\ Len(st.stack) = 0
  THEN ThrowRangeError(st, "Trying to access the top of an empty stack.")
  ELSE st

\* an inspect that does not look at the stack
inspectUnchecked(st, depth) == st

inspect(st, depth) ==
  IF Ok(st) /\ ~(depth >= 0 /\ depth < Len(st.stack))
  THEN ThrowRangeError(st, "Trying to inspect element " \o ToString(depth)
                           \o " in a stack of size "
                           \o ToString(Len(st.stack)) \o ".")
  ELSE st

\* inspect every depth of ps, in order
RECURSIVE inspectAll(_, _)
inspectAll(st, ps) ==
  IF ps = <<>> THEN st ELSE inspectAll(inspect(st, Head(ps)), Tail(ps))

discard(st, n) ==
  IF ~Ok(st) THEN st
  ELSE IF Len(st.stack) < n
  THEN ThrowRangeError(st, "Trying to pop " \o ToString(n)
                           \o " elements, but only "
                           \o ToString(Len(st.stack)) \o " available.")
  ELSE IF n < 0
  THEN ThrowRangeError(st, "Trying to discard " \o ToString(n) \o " elements.")
  ELSE [st EXCEPT !.stack = SubSeq(@, 1, Len(@) - n)]

popn(st, n) == discard(st, n)

\* a fresh object {}: its identity is the counter's value
fresh(st) == [st EXCEPT !.nid = @ + 1]

\* a setCurrPos that accepts every value that could be an OFFSET
setCurrPosCouldBe(st, value) ==
  IF ~Ok(st) THEN st
  ELSE IF ~couldBe(value, TypeTag.OFFSET)
  THEN ThrowError(st, "Invalid value assigned to currPos.")
  ELSE IF value.value = 0
  THEN fresh([st EXCEPT !.currPos = [type |-> TypeTag.OFFSET, value |-> st.nid]])
  ELSE [st EXCEPT !.currPos = value]

setCurrPos(st, value) ==
  IF ~Ok(st) THEN st
  ELSE IF value.type # TypeTag.OFFSET
  THEN ThrowError(st, "Invalid value assigned to currPos.")
  ELSE IF value.value = 0
  THEN fresh([st EXCEPT !.currPos = [type |-> TypeTag.OFFSET, value |-> st.nid]])
  ELSE [st EXCEPT !.currPos = value]

\* an advance that leaves currPos as it is
advanceNowhere(st) == st

\* this.currPos = { type: OFFSET, value: {} }
advance(st) ==
  IF Ok(st)
  THEN fresh([st EXCEPT !.currPos = [type |-> TypeTag.OFFSET, value |-> st.nid]])
  ELSE st

RECURSIVE UnionStacks(_, _)
UnionStacks(a, b) ==
  [i \in 1..Len(a) |-> union(a[i], b[i])]

\* a merge that compares silentFails before the stack lengths
mergeSilentFailsFirst(this, from) ==
  IF ~Ok(this) THEN this
  ELSE IF ~Ok(from) THEN Throw(this, from.err)
  ELSE IF this.silentFails # from.silentFails
  THEN ThrowError(this, "Merging states with mis-matched silentFails.")
  ELSE IF Len(this.stack) # Len(from.stack)
  THEN ThrowError(this, "Merging states with mis-matched stacks.")
  ELSE setCurrPos([this EXCEPT !.stack = UnionStacks(this.stack, from.stack)],
                  union(this.currPos, from.currPos))

merge(this, from) ==
  IF ~Ok(this) THEN this
  ELSE IF ~Ok(from) THEN Throw(this, from.err)
  ELSE IF Len(this.stack) # Len(from.stack)
  THEN ThrowError(this, "Merging states with mis-matched stacks.")
  ELSE IF this.silentFails # from.silentFails
  THEN ThrowError(this, "Merging states with mis-matched silentFails.")
  ELSE setCurrPos([this EXCEPT !.stack = UnionStacks(this.stack, from.stack)],
                  union(this.currPos, from.currPos))

\* an equal that compares currPos as well
equalWithCurrPos(this, from) ==
  /\ Len(this.stack) = Len(from.stack)
  /\ this.silentFails = from.silentFails
  /\ \A i \in 1..Len(this.stack) : equalType(this.stack[i], from.stack[i])
  /\ equalType(this.currPos, from.currPos)

equal(this, from) ==
  /\ Len(this.stack) = Len(from.stack)
  /\ this.silentFails = from.silentFails
  /\ \A i \in 1..Len(this.stack) : equalType(this.stack[i], from.stack[i])

\* (this.ast && this.ast.rules[r].match) || 0; -2 stands for the TypeError of
\* reading .match of a rule the grammar does not have
ruleMatch(st, r) ==
  IF st.ast = <<>> THEN 0
  ELSE IF r >= 0 /\ r < Len(st.ast) THEN st.ast[r + 1] ELSE -2

\* e[i] of a formatted element without blocks, i >= 1 (0 when absent)
Arg(e, i) == IF i >= 1 /\ i <= Len(e.args) THEN e.args[i] ELSE 0

(***************************************************************************)
(* interp: the transfer function of the opcodes without sub-blocks         *)
(***************************************************************************)
interpFlat(bc, st) ==
  LET o == bc.op IN
  IF ~Ok(st) THEN st
  ELSE IF o = op.PUSH_EMPTY_STRING THEN push(st, [type |-> TypeTag.STRING, value |-> 0])
  ELSE IF o = op.PUSH_CURR_POS THEN push(st, st.currPos)
  ELSE IF o = op.PUSH_UNDEFINED THEN push(st, [type |-> TypeTag.UNDEFINED, value |-> 0])
  ELSE IF o = op.PUSH_NULL THEN push(st, [type |-> TypeTag.NULL, value |-> 0])
  ELSE IF o = op.PUSH_FAILED THEN push(st, [type |-> TypeTag.FAILED, value |-> 0])
  ELSE IF o = op.PUSH_EMPTY_ARRAY
  THEN fresh(push(st, [type |-> TypeTag.ARRAY, value |-> st.nid]))
  ELSE IF o = op.POP THEN discard(st, 1)
  ELSE IF o = op.POP_CURR_POS THEN setCurrPos(pop(st), topValue(st))
  ELSE IF o = op.POP_N THEN popn(st, Arg(bc, 1))
  ELSE IF o = op.NIP THEN push(discard(pop(st), 1), topValue(st))
  ELSE IF o = op.APPEND THEN
    LET s1 == top(pop(st)) IN
    IF Ok(s1) /\ topValue(s1).type # TypeTag.ARRAY
    THEN ThrowError(s1, "Attempting to append to a non-array.")
    ELSE s1
  ELSE IF o = op.WRAP THEN
    LET s1 == popn(st, Arg(bc, 1)) IN
    fresh(push(s1, [type |-> TypeTag.ARRAY, value |-> s1.nid]))
  ELSE IF o = op.TEXT THEN
    LET s1 == pop(st) IN
    IF Ok(s1) /\ topValue(st).type # TypeTag.OFFSET
    THEN ThrowError(s1, "TEXT bytecode got an incorrect type: "
                        \o ToString(topValue(st).type) \o ".")
    ELSE push(s1, [type |-> TypeTag.STRING, value |-> 0])
  ELSE IF o = op.PLUCK THEN
    LET paramsLength == Arg(bc, 2)
        params == SubSeq(bc.args, 3, Len(bc.args))
        s1 == IF paramsLength = 1 THEN inspect(st, Arg(bc, 3))
              ELSE inspectAll(st, params)
        result == IF paramsLength = 1 THEN inspectValue(st, Arg(bc, 3))
                  ELSE [type |-> TypeTag.ARRAY, value |-> st.nid]
        s2 == push(popn(s1, Arg(bc, 1)), result)
    IN IF paramsLength = 1 THEN s2 ELSE fresh(s2)
  ELSE IF o \in {op.ACCEPT_N, op.ACCEPT_STRING}
  THEN advance(push(st, [type |-> TypeTag.STRING, value |-> 0]))
  ELSE IF o = op.FAIL THEN push(st, [type |-> TypeTag.FAILED, value |-> 0])
  ELSE IF o = op.LOAD_SAVED_POS THEN inspect(st, Arg(bc, 1))
  ELSE IF o = op.CALL THEN
    LET s1 == inspectAll(st, SubSeq(bc.args, 4, Len(bc.args))) IN
    advance(push(discard(s1, Arg(bc, 2)), [type |-> TypeTag.ANY, value |-> 0]))
  ELSE IF o = op.RULE THEN
    LET match == ruleMatch(st, Arg(bc, 1)) IN
    IF match = -2 THEN Throw(st, "TypeError")
    ELSE IF match > 0
    THEN advance(push(st, [type |-> AndNot(TypeTag.ANY, TypeTag.FAILED), value |-> 0]))
    ELSE IF match < 0
    THEN advance(push(st, [type |-> TypeTag.FAILED, value |-> 0]))
    ELSE advance(push(st, [type |-> TypeTag.ANY, value |-> 0]))
  ELSE IF o = op.SILENT_FAILS_ON THEN [st EXCEPT !.silentFails = @ + 1]
  ELSE IF o = op.SILENT_FAILS_OFF THEN [st EXCEPT !.silentFails = @ - 1]
  ELSE IF o \in {op.UPDATE_SAVED_POS, op.SOURCE_MAP_PUSH, op.SOURCE_MAP_POP,
                 op.SOURCE_MAP_LABEL_PUSH, op.SOURCE_MAP_LABEL_POP}
  THEN st
  ELSE Throw(st, "Invalid opcode")

(***************************************************************************)
(* Results of one interpretation step                                      *)
(***************************************************************************)
\* condState: absent, a state at the end of a branch, or {thenState, elseState}
NoCS == [k |-> "none"]
Leaf(st) == [k |-> "leaf", st |-> st]
Node(t, e) == [k |-> "node", t |-> t, e |-> e]

\* bytecodeMods: absent, true, or {startOffset, length, replacements}
NoMods == [k |-> "none", start |-> 0, len |-> 0, repl |-> <<>>]
ModsTrue == [k |-> "true", start |-> 0, len |-> 0, repl |-> <<>>]
\* a splice that takes out one element whatever the length asked for
SpliceModsOne(s, l, r) == [k |-> "splice", start |-> s, len |-> 1, repl |-> r]
SpliceMods(s, l, r) == [k |-> "splice", start |-> s, len |-> l, repl |-> r]

\* An InterpResult together with the block and the state the step left
Result(bc, st, ip, cs, mods) ==
  [bc |-> bc, st |-> st, ip |-> ip, cs |-> cs, mods |-> mods]

\* an applyMods that does not ask whether the interpreter is looping
applyModsWhileLooping(r, chg) ==
  IF r.mods.k # "none" /\ Ok(r.st) THEN
    IF r.mods.k = "splice" THEN
      [r |-> [r EXCEPT
                !.bc = Splice(r.bc, r.mods.start, r.mods.len, r.mods.repl),
                !.ip = IF r.ip >= r.mods.start + r.mods.len
                       THEN r.ip + Len(r.mods.repl) - r.mods.len ELSE r.ip,
                !.mods = NoMods],
       changes |-> TRUE]
    ELSE [r |-> [r EXCEPT !.mods = NoMods], changes |-> TRUE]
  ELSE [r |-> r, changes |-> chg]

\* run()'s local applyMods; acc is [r, changes]
applyMods(r, chg) ==
  IF r.mods.k # "none" /\ r.st.looping = 0 /\ Ok(r.st) THEN
    IF r.mods.k = "splice" THEN
      [r |-> [r EXCEPT
                !.bc = Splice(r.bc, r.mods.start, r.mods.len, r.mods.repl),
                !.ip = IF r.ip >= r.mods.start + r.mods.len
                       THEN r.ip + Len(r.mods.repl) - r.mods.len ELSE r.ip,
                !.mods = NoMods],
       changes |-> TRUE]
    ELSE [r |-> [r EXCEPT !.mods = NoMods], changes |-> TRUE]
  ELSE [r |-> r, changes |-> chg]

\* the element an out-of-range index reads (undefined)
NoElement == [op |-> -1, args |-> <<>>, blocks |-> <<>>]
Elem(bc, i) == IF i >= 1 /\ i <= Len(bc) THEN bc[i] ELSE NoElement
Exists(e) == e.op # -1

IsConditional(e) == e.op \in Cond0Opcodes \cup Cond1Opcodes /\ Len(e.blocks) = 2

\* killsCurrPos on formatted bytecode, from element ip on
RECURSIVE killsCurrPos(_, _)
killsCurrPos(bc, ip) ==
  IF ip > Len(bc) THEN FALSE
  ELSE IF bc[ip].op = op.POP_CURR_POS THEN TRUE
  ELSE IF bc[ip].op \in {op.POP, op.PUSH_NULL, op.PUSH_FAILED, op.PUSH_UNDEFINED,
                         op.PUSH_EMPTY_STRING, op.PUSH_EMPTY_ARRAY,
                         op.SILENT_FAILS_ON, op.SILENT_FAILS_OFF,
                         op.FAIL, op.POP_N}
  THEN killsCurrPos(bc, ip + 1)
  ELSE FALSE

(***************************************************************************)
(* The stack effect of an element (pushPops and its two companions)        *)
(***************************************************************************)
\* What pushPops reports of an element: the depths it inspects, how many
\* slots it pops and then pushes, and whether it has sub-blocks.
pushPops(bc) ==
  LET o == bc.op
      E(i, p, q, s) == [inspects |-> i, pops |-> p, pushes |-> q, sub |-> s]
  IN
  IF o \in {op.PUSH_EMPTY_STRING, op.PUSH_CURR_POS, op.PUSH_UNDEFINED,
            op.PUSH_NULL, op.PUSH_FAILED, op.PUSH_EMPTY_ARRAY,
            op.ACCEPT_N, op.ACCEPT_STRING, op.FAIL, op.RULE}
  THEN E(<<>>, 0, 1, FALSE)
  ELSE IF o = op.POP THEN E(<<>>, 1, 0, FALSE)
  ELSE IF o = op.POP_N THEN E(<<>>, Arg(bc, 1), 0, FALSE)
  ELSE IF o = op.POP_CURR_POS THEN E(<<0>>, 1, 0, FALSE)
  ELSE IF o = op.NIP THEN E(<<0>>, 2, 1, FALSE)
  ELSE IF o = op.APPEND THEN E(<<0, 1>>, 1, 0, FALSE)
  ELSE IF o = op.WRAP
  THEN E([i \in 1..Arg(bc, 1) |-> i - 1], Arg(bc, 1), 1, FALSE)
  ELSE IF o = op.TEXT THEN E(<<0>>, 1, 1, FALSE)
  ELSE IF o = op.PLUCK
  THEN E(SubSeq(bc.args, 3, Len(bc.args)), Arg(bc, 1), 1, FALSE)
  ELSE IF o = op.CALL
  THEN E(SubSeq(bc.args, 4, Len(bc.args)), Arg(bc, 2), 1, FALSE)
  ELSE IF o = op.LOAD_SAVED_POS THEN E(<<Arg(bc, 1)>>, 0, 0, FALSE)
  ELSE IF o \in {op.IF_, op.IF_ERROR, op.IF_NOT_ERROR, op.WHILE_NOT_ERROR}
  THEN E(<<0>>, 0, 0, TRUE)
  ELSE IF o \in Cond0Opcodes \cup Cond1Opcodes THEN E(<<>>, 0, 0, TRUE)
  ELSE E(<<>>, 0, 0, FALSE)

InSeq(x, s) == \E i \in 1..Len(s) : s[i] = x

\* the element discards the slot at depth without reading it
killsStackAt(bc, depth) ==
  LET e == pushPops(bc) IN
  ~e.sub /\ ~InSeq(depth, e.inspects) /\ e.pops > depth

\* The element once the slot at depth is gone from under it; NoElement
\* stands for the element left empty.
fixupForStackRemoval(bc, depth) ==
  LET o == bc.op
      Dec(x) == IF x > depth THEN x - 1 ELSE x
  IN
  IF o = op.POP THEN IF depth = 0 THEN NoElement ELSE bc
  ELSE IF o = op.NIP THEN IF depth = 1 THEN NoElement ELSE bc
  ELSE IF o \in {op.POP_N, op.WRAP, op.LOAD_SAVED_POS}
  THEN [bc EXCEPT !.args = <<Dec(bc.args[1])>>]
  ELSE IF o = op.PLUCK
  THEN [bc EXCEPT !.args = [i \in 1..Len(bc.args) |->
             IF i = 2 THEN bc.args[i] ELSE Dec(bc.args[i])]]
  ELSE IF o = op.CALL
  THEN [bc EXCEPT !.args = [i \in 1..Len(bc.args) |->
             IF i \in {1, 3} THEN bc.args[i] ELSE Dec(bc.args[i])]]
  ELSE bc

\* if (!bc.length) bcs.splice(ip, 1, [op.POP_N, 0])
OrNoop(e) == IF Exists(e) THEN e ELSE Flat(op.POP_N, <<0>>)

(***************************************************************************)
(* cheapBlock, pop_only                                                    *)
(***************************************************************************)
RECURSIVE CheapFrom(_, _, _, _)
CheapFrom(bc, i, numPop, numPush) ==
  IF i > Len(bc) THEN numPop >= numPush
  ELSE LET cur == bc[i] IN
    IF cur.op = op.POP_N THEN CheapFrom(bc, i + 1, numPop + Arg(cur, 1), numPush)
    ELSE IF cur.op \in {op.POP, op.NIP, op.POP_CURR_POS}
    THEN CheapFrom(bc, i + 1, numPop + 1, numPush)
    ELSE IF cur.op = op.PLUCK THEN Arg(cur, 2) = 1
    ELSE IF cur.op \in {op.PUSH_NULL, op.PUSH_UNDEFINED, op.PUSH_FAILED}
    THEN IF numPush # 0 THEN FALSE ELSE CheapFrom(bc, i + 1, numPop, numPush + 1)
    ELSE IF cur.op = op.TEXT THEN CheapFrom(bc, i + 1, numPop, numPush)
    ELSE FALSE

cheapBlock(bc) == CheapFrom(bc, 1, 0, 0)

pop_only(bcs) == \A i \in 1..Len(bcs) : bcs[i].op \in {op.POP, op.POP_N}

(***************************************************************************)
(* The interpreter: interp, interpCondition, interpLoop, run               *)
(***************************************************************************)
RECURSIVE run(_, _), RunFrom(_, _, _, _, _), runTurn(_, _, _, _), interp(_, _, _),
          interpCondition(_, _, _, _), interpLoop(_, _, _), LoopIter(_, _, _),
          preInterp(_, _, _), postInterp(_, _, _), postInterpCond(_, _, _),
          FuseTraverse(_, _, _, _), FuseBranch(_, _, _, _), FuseVisit(_, _, _, _)

FalseTypes == BitOr(TypeTag.UNDEFINED, TypeTag.NULL)
TrueTypes == BitOr(TypeTag.FAILED, TypeTag.ARRAY)

\* the check callbacks interp hands to interpCondition for IF, IF_ERROR and
\* IF_NOT_ERROR: [this side only, the refined type of the top]
check(o, t, forThen) ==
  IF o = op.IF_ THEN
    IF forThen
    THEN [only |-> mustBeTrue(t), type |-> AndNot(t.type, FalseTypes)]
    ELSE [only |-> mustBeFalse(t), type |-> AndNot(t.type, TrueTypes)]
  ELSE IF (o = op.IF_ERROR) = forThen
  THEN [only |-> t.type = TypeTag.FAILED, type |-> TypeTag.FAILED]
  ELSE [only |-> ~couldBe(t, TypeTag.FAILED),
        type |-> AndNot(t.type, TypeTag.FAILED)]

\* interpCondition, given what its check callback returns for the then side
\* and for the else side of the top of the stack
interpConditionWith(bcs, ip, st, hasCheck, thenCheck, elseCheck) ==
  LET cbc == bcs[ip]
      thenSlice == cbc.blocks[Len(cbc.blocks) - 1]
      elseSlice == cbc.blocks[Len(cbc.blocks)]
      s0 == IF hasCheck THEN top(st) ELSE st
      \* only one branch can be taken, and rr is its run
      Only(thenOnly, rr) ==
        Result([bcs EXCEPT ![ip].blocks = IF thenOnly THEN <<rr.bc, elseSlice>>
                                          ELSE <<thenSlice, rr.bc>>],
               rr.st, ip + 1, NoCS, SpliceMods(ip, 1, rr.bc))
      \* both branches have run; this1 is the state after the else branch
      Merged(thenResult, elseResult, this1, thenSt1) ==
        Result([bcs EXCEPT ![ip].blocks = <<thenResult.bc, elseResult.bc>>],
               merge(this1, thenSt1), ip + 1,
               Node(IF thenResult.cs.k # "none" THEN thenResult.cs
                    ELSE Leaf(thenSt1),
                    IF elseResult.cs.k # "none" THEN elseResult.cs
                    ELSE Leaf(this1)),
               IF thenResult.changes \/ elseResult.changes
               THEN ModsTrue ELSE NoMods)
      Both(thenResult, elseResult) ==
        Merged(thenResult, elseResult, elseResult.st,
               IF Len(elseResult.bc) = 0
                  /\ Len(thenResult.st.stack) > Len(elseResult.st.stack)
               THEN [thenResult.st EXCEPT
                       !.stack = SubSeq(@, 1, Len(elseResult.st.stack))]
               ELSE thenResult.st)
      Else(thenResult, elseStart) ==
        Both(thenResult, run(elseSlice, [elseStart EXCEPT
                                           !.nid = thenResult.st.nid,
                                           !.err = thenResult.st.err]))
      \* ct and ce are what thenCheck and elseCheck say of the top
      Checked(ct, ce) ==
        IF hasCheck /\ ct.only /\ ce.only
        THEN Result(bcs,
                    ThrowError(st, "Conditional cannot be both always true and always false."),
                    ip + 1, NoCS, NoMods)
        ELSE IF hasCheck /\ (ct.only \/ ce.only)
        THEN Only(ct.only, run(IF ct.only THEN thenSlice ELSE elseSlice, st))
        ELSE Else(run(thenSlice,
                      IF hasCheck
                      THEN push(pop(st), [type |-> ct.type, value |-> 0]) ELSE st),
                  IF hasCheck
                  THEN push(pop(st), [type |-> ce.type, value |-> 0]) ELSE st)
  IN
  IF ~Ok(s0) THEN Result(bcs, s0, ip + 1, NoCS, NoMods)
  ELSE Checked(thenCheck, elseCheck)

interpCondition(bcs, ip, st, hasCheck) ==
  interpConditionWith(bcs, ip, st, hasCheck,
                      check(bcs[ip].op, topValue(st), TRUE),
                      check(bcs[ip].op, topValue(st), FALSE))

\* the fixpoint iteration of interpLoop: this runs the body, merges the
\* saved state, and stops when it equals the saved state
LoopIter(slice, this, state) ==
  LET Merged(m) == IF ~Ok(m) THEN m
                   ELSE IF equal(m, state) THEN m
                   ELSE LoopIter(slice, m, m)
  IN Merged(merge(run(slice, this).st, state))

\* an interpLoop that steps over a loop whose entry must be FAILED and
\* leaves the element in the block
interpLoopKeepsDead(bcs, ip, st) ==
  Result(bcs, top(st), ip + 1, NoCS, NoMods)

interpLoop(bcs, ip, st) ==
  LET slice == bcs[ip].blocks[1]
      s0 == top(st)
  IN
  IF ~Ok(s0) THEN Result(bcs, s0, ip + 1, NoCS, NoMods)
  ELSE IF mustBe(topValue(st), TypeTag.FAILED)
  THEN Result(bcs, st, ip + 1, NoCS, SpliceMods(ip, 1, <<>>))
  ELSE
    LET l1 == [st EXCEPT !.looping = @ + 1]
        \* the run of the body after the fixpoint was reached
        Last(last) ==
          Result([bcs EXCEPT ![ip].blocks = <<last.bc>>], last.st, ip + 1, NoCS,
                 IF last.changes THEN ModsTrue ELSE NoMods)
        Fixed(fix) == Last(run(slice, [fix EXCEPT !.looping = @ - 1]))
    IN Fixed(LoopIter(slice, l1, l1))

interp(bcs, ip, st) ==
  LET bc == bcs[ip] IN
  IF bc.op \in {op.IF_, op.IF_ERROR, op.IF_NOT_ERROR}
  THEN interpCondition(bcs, ip, st, TRUE)
  ELSE IF bc.op \in {op.IF_LT, op.IF_GE, op.IF_LT_DYNAMIC, op.IF_GE_DYNAMIC,
                     op.MATCH_ANY, op.MATCH_STRING, op.MATCH_STRING_IC,
                     op.MATCH_CHAR_CLASS}
  THEN interpCondition(bcs, ip, st, FALSE)
  ELSE IF bc.op = op.WHILE_NOT_ERROR THEN interpLoop(bcs, ip, st)
  ELSE Result(bcs, interpFlat(bc, st), ip + 1, NoCS, NoMods)

\* one turn of run()'s while loop: [r, changes], r being the turn's result
\* after the last applyMods
runTurn(bc, ip, st, chg) ==
  LET \* applyMods(result) precedes postInterp, and follows it again
      Post(a0) == applyMods(postInterp(a0.r.bc, ip, a0.r), a0.changes)
      Interp(r0) == IF Ok(r0.st) /\ r0.st.looping = 0 /\ st.vis
                    THEN Post(applyMods(r0, chg))
                    ELSE applyMods(r0, chg)
      Pre(pre) == IF pre.hit THEN applyMods(pre.r, chg)
                  ELSE Interp(interp(bc, ip, st))
  IN Pre(IF st.vis /\ st.looping = 0 THEN preInterp(bc, ip, st)
         ELSE [hit |-> FALSE, r |-> Result(bc, st, ip, NoCS, NoMods)])

\* run()'s while loop from ip on
RunFrom(bc, ip, st, chg, cs) ==
  IF ~Ok(st) \/ ip > Len(bc)
  THEN [bc |-> bc, st |-> st, changes |-> chg, cs |-> cs]
  ELSE
    LET Turn(a2) == RunFrom(a2.r.bc, a2.r.ip, a2.r.st, a2.changes, a2.r.cs)
    IN Turn(runTurn(bc, ip, st, chg))

run(bc, st) == RunFrom(bc, 1, st, FALSE, NoCS)

(***************************************************************************)
(* preInterp                                                               *)
(***************************************************************************)
Hit(r) == [hit |-> TRUE, r |-> r]
Miss(bc, ip, st) == [hit |-> FALSE, r |-> Result(bc, st, ip, NoCS, NoMods)]

\* the pushing opcodes' case: a following NIP, or a PLUCK n 1 0 with n > 1
PreInterpPush(bc, ip, st) ==
  LET cur == bc[ip]
      next == Elem(bc, ip + 1)
  IN
  IF Exists(next) /\ next.op = op.NIP THEN
    Hit(Result(bc, interpFlat(cur, discard(st, 1)), ip + 2, NoCS,
               SpliceMods(ip, 2, <<Flat(op.POP, <<>>), cur>>)))
  ELSE IF Exists(next) /\ next.op = op.PLUCK /\ Arg(next, 1) > 1
          /\ Arg(next, 2) = 1 /\ Len(next.args) >= 3 /\ Arg(next, 3) = 0
  THEN
    Hit(Result(bc, interpFlat(cur, discard(st, Arg(next, 1) - 1)), ip + 2, NoCS,
               SpliceMods(ip, 2, <<Flat(op.POP_N, <<Arg(next, 1) - 1>>), cur>>)))
  ELSE Miss(bc, ip, st)

\* a conversion that lists the indices upwards
WrapAsPluckUpwards(n) == Flat(op.PLUCK, <<n, n>> \o [i \in 1..n |-> i - 1])

\* WRAP n as the PLUCK n n n-1 ... 0 it is equivalent to
WrapAsPluck(n) == Flat(op.PLUCK, <<n, n>> \o [i \in 1..n |-> n - i])

\* a preInterp without any rule
preInterpNoRule(bc, ip, st) == Miss(bc, ip, st)

preInterp(bc, ip, st) ==
  LET cur == bc[ip]
      next == Elem(bc, ip + 1)
      o == cur.op
  IN
  IF o \in {op.ACCEPT_N, op.ACCEPT_STRING} THEN
    IF Exists(next) /\ killsStackAt(next, 0) /\ killsCurrPos(bc, ip + 2) THEN
      LET nx == OrNoop(fixupForStackRemoval(next, 0)) IN
      Hit(Result(Splice(bc, ip, 2, <<nx>>), interpFlat(nx, st), ip + 1,
                 NoCS, ModsTrue))
    ELSE PreInterpPush(bc, ip, st)
  ELSE IF o \in {op.RULE, op.FAIL, op.PUSH_EMPTY_ARRAY, op.PUSH_EMPTY_STRING,
                 op.PUSH_FAILED, op.PUSH_NULL, op.PUSH_CURR_POS,
                 op.PUSH_UNDEFINED}
  THEN PreInterpPush(bc, ip, st)
  ELSE IF o = op.CALL THEN
    IF Exists(next) /\ next.op = op.NIP THEN
      LET cur2 == [cur EXCEPT !.args[2] = @ + 1] IN
      Hit(Result(Splice(bc, ip, 2, <<cur2>>), interpFlat(cur2, st), ip + 1,
                 NoCS, ModsTrue))
    ELSE Miss(bc, ip, st)
  ELSE IF o = op.TEXT THEN
    IF Exists(next) /\ killsStackAt(next, 0) THEN
      Hit(Result(Splice(bc, ip, 1, <<>>), interpFlat(next, st), ip + 1,
                 NoCS, ModsTrue))
    ELSE IF Exists(next) /\ next.op = op.NIP THEN
      Hit(Result(Splice(bc, ip, 2, <<next, cur>>),
                 interpFlat(next, interpFlat(cur, st)), ip + 2, NoCS, ModsTrue))
    ELSE Miss(bc, ip, st)
  ELSE IF o = op.POP_CURR_POS THEN
    LET t == topValue(st) IN
    IF ~Ok(top(st)) THEN Hit(Result(bc, top(st), ip, NoCS, NoMods))
    ELSE IF t.type = TypeTag.OFFSET /\ t.value # 0 /\ t.value = st.currPos.value
    THEN Hit(Result([bc EXCEPT ![ip].op = op.POP], pop(st), ip + 1,
                    NoCS, ModsTrue))
    ELSE Miss(bc, ip, st)
  ELSE IF o = op.NIP THEN
    IF Exists(next) /\ killsStackAt(next, 0)
    THEN Hit(Result([bc EXCEPT ![ip].op = op.POP], pop(st), ip + 1,
                    NoCS, ModsTrue))
    ELSE Miss(bc, ip, st)
  ELSE IF o \in {op.WRAP, op.PLUCK} THEN
    IF ~Exists(next) THEN Miss(bc, ip, st)
    ELSE IF killsStackAt(next, 0) THEN
      LET npop == Arg(cur, 1) IN
      IF npop = 0 THEN
        Hit(Result([bc EXCEPT ![ip] = Flat(op.PUSH_NULL, <<>>)],
                   push(st, [type |-> TypeTag.NULL, value |-> 0]), ip + 1,
                   NoCS, ModsTrue))
      ELSE IF npop = 1 THEN
        Hit(Result(Splice(bc, ip, 1, <<>>), st, ip, NoCS, ModsTrue))
      ELSE
        Hit(Result([bc EXCEPT ![ip] = Flat(op.POP_N, <<npop - 1>>)],
                   discard(st, npop - 1), ip + 1, NoCS, ModsTrue))
    ELSE IF next.op = op.NIP THEN
      LET n == Arg(cur, 1) IN
      IF o = op.WRAP /\ n = 1 THEN
        Hit(Result(bc, interpFlat(next, interpFlat(cur, st)), ip + 2, NoCS,
                   SpliceMods(ip, 2, <<Flat(op.NIP, <<>>), cur>>)))
      ELSE
        LET asPluck == IF o = op.WRAP THEN WrapAsPluck(n) ELSE cur
            cur2 == [asPluck EXCEPT !.args[1] = @ + 1]
        IN Hit(Result(Splice(bc, ip, 2, <<cur2>>), interpFlat(cur2, st),
                      ip + 1, NoCS, ModsTrue))
    ELSE Miss(bc, ip, st)
  ELSE IF o = op.POP THEN
    IF ~Exists(next) THEN Miss(bc, ip, st)
    ELSE IF ~Ok(top(st)) THEN Hit(Result(bc, top(st), ip, NoCS, NoMods))
    ELSE
      LET t == topValue(st).type IN
      IF BitAnd(t, BitOr(FalseTypes, TypeTag.FAILED)) # 0 /\ SingleBit(t)
         /\ \/ next.op = op.PUSH_UNDEFINED /\ t = TypeTag.UNDEFINED
            \/ next.op = op.PUSH_NULL /\ t = TypeTag.NULL
            \/ next.op = op.PUSH_FAILED /\ t = TypeTag.FAILED
      THEN Hit(Result(bc, st, ip + 2, NoCS, SpliceMods(ip, 2, <<>>)))
      ELSE Miss(bc, ip, st)
  ELSE IF o \in Cond0Opcodes \cup Cond1Opcodes THEN
    LET code == getConditionalCode(cur) IN
    IF pop_only(code[1]) /\ pop_only(code[2])
    THEN Hit(Result(Splice(bc, ip, 1, code[2]), st, ip, NoCS, ModsTrue))
    ELSE Miss(bc, ip, st)
  ELSE Miss(bc, ip, st)

(***************************************************************************)
(* traverseCondState and the two visitors postInterp hands to it           *)
(***************************************************************************)
\* a test every top passes
runAlways(nop, t) == TRUE

\* the tests conditional fusion applies to the top of a branch's end state
runThen(nop, t) ==
  IF nop = op.IF_ THEN mustBeTrue(t)
  ELSE IF nop = op.IF_ERROR THEN mustBe(t, TypeTag.FAILED)
  ELSE ~couldBe(t, TypeTag.FAILED)

runElse(nop, t) ==
  IF nop = op.IF_ THEN mustBeFalse(t)
  ELSE IF nop = op.IF_ERROR THEN ~couldBe(t, TypeTag.FAILED)
  ELSE mustBe(t, TypeTag.FAILED)

\* [thenCode, elseCode] of the element that follows the conditional
NextCode(next) ==
  IF next.op = op.WHILE_NOT_ERROR THEN <<(<<next>>), <<>>>>
  ELSE getConditionalCode(next)

Counts0 == [numThen |-> 0, numElse |-> 0, numNonCheapThen |-> 0,
            numNonCheapElse |-> 0, numUnknown |-> 0, go |-> TRUE, err |-> ""]

\* the counting visitor; go = FALSE is the visitor's "return false"
CountVisit(state, next, acc) ==
  IF Len(state.stack) = 0
  THEN [acc EXCEPT !.go = FALSE, !.err = top(state).err]
  ELSE LET type == topValue(state)
           code == NextCode(next)
       IN
    IF runThen(next.op, type)
    THEN [acc EXCEPT !.numThen = @ + 1,
                     !.numNonCheapThen = IF cheapBlock(code[1]) THEN @ ELSE @ + 1]
    ELSE IF runElse(next.op, type)
    THEN [acc EXCEPT !.numElse = @ + 1,
                     !.numNonCheapElse = IF cheapBlock(code[2]) THEN @ ELSE @ + 1]
    ELSE [acc EXCEPT !.numThen = @ + 1, !.numElse = @ + 1,
                     !.numUnknown = @ + 1, !.go = (acc.numUnknown = 0)]

\* a count that visits no branch and so finds nothing against fusion
CountNothing(bc, condState, next, acc) == acc

\* traverseCondState with the counting visitor
RECURSIVE CountTraverse(_, _, _, _)
CountTraverse(bc, condState, next, acc) ==
  IF ~acc.go THEN acc
  ELSE IF ~IsConditional(bc)
  THEN [acc EXCEPT !.go = FALSE, !.err = "Expected a conditional bytecode"]
  ELSE
    LET code == getConditionalCode(bc)
        \* a1 is the count after the then side
        Else(a1) ==
          IF ~a1.go THEN a1
          ELSE IF condState.e.k = "node"
          THEN CountTraverse(Elem(code[2], Len(code[2])), condState.e, next, a1)
          ELSE CountVisit(condState.e.st, next, a1)
    IN Else(IF condState.t.k = "node"
            THEN CountTraverse(Elem(code[1], Len(code[1])), condState.t, next, acc)
            ELSE CountVisit(condState.t.st, next, acc))

\* The visitors that extend a branch.  job says what to append: the code of
\* the following conditional (k = "fuse") or a chain of pops (k = "pops").
\* ctx is [this, first, next]: the state being rebuilt, whether no branch
\* was visited yet, and the following element as the visits left it.
FuseVisit(state, block, job, ctx) ==
  LET s0 == [state EXCEPT !.nid = ctx.this.nid, !.err = ctx.this.err]
      code == NextCode(ctx.next)
      \* rr is the run of the code the branch was extended by
      Ran(which, rr) ==
        [blk |-> block \o rr.bc, cs |-> Leaf(rr.st),
         ctx |-> [this |-> IF ctx.first
                           THEN [copy(ctx.this, rr.st) EXCEPT !.nid = rr.st.nid,
                                                              !.err = rr.st.err]
                           ELSE merge([ctx.this EXCEPT !.nid = rr.st.nid], rr.st),
                  first |-> FALSE,
                  next |-> IF which = "both" /\ Len(rr.bc) = 1
                              /\ rr.bc[1].op = ctx.next.op
                              /\ Len(rr.bc[1].blocks) = Len(ctx.next.blocks)
                           THEN rr.bc[1] ELSE ctx.next]]
      Chosen(which) ==
        Ran(which, run(IF which = "pops" THEN job.code
                       ELSE IF which = "then" THEN code[1]
                       ELSE IF which = "else" THEN code[2]
                       ELSE <<ctx.next>>,
                       IF job.k = "fuse" THEN top(s0) ELSE s0))
  IN Chosen(IF job.k = "pops" THEN "pops"
            ELSE IF runThen(ctx.next.op, topValue(s0)) THEN "then"
            ELSE IF runElse(ctx.next.op, topValue(s0)) THEN "else"
            ELSE "both")

\* one side of a node: either a nested node or a branch's end state
FuseBranch(branch, condState, job, ctx) ==
  IF condState.k = "node" THEN
    LET n == Len(branch)
        Nested(sub) ==
          [blk |-> IF n > 0 THEN [branch EXCEPT ![n] = sub.elem] ELSE branch,
           cs |-> sub.cs, ctx |-> sub.ctx]
    IN Nested(FuseTraverse(Elem(branch, n), condState, job, ctx))
  ELSE FuseVisit(condState.st, branch, job, ctx)

FuseTraverse(bc, condState, job, ctx) ==
  IF ~Ok(ctx.this) THEN [elem |-> bc, cs |-> condState, ctx |-> ctx]
  ELSE IF ~IsConditional(bc)
  THEN [elem |-> bc, cs |-> condState,
        ctx |-> [ctx EXCEPT !.this = Throw(@, "Expected a conditional bytecode")]]
  ELSE
    LET code == getConditionalCode(bc)
        \* r1 and r2 are the two sides as the visits left them
        Sides(r1, r2) ==
          [elem |-> [bc EXCEPT !.blocks = <<r1.blk, r2.blk>>],
           cs |-> Node(r1.cs, r2.cs), ctx |-> r2.ctx]
        Else(r1) ==
          Sides(r1, IF Ok(r1.ctx.this)
                    THEN FuseBranch(code[2], condState.e, job, r1.ctx)
                    ELSE [blk |-> code[2], cs |-> condState.e, ctx |-> r1.ctx])
    IN Else(FuseBranch(code[1], condState.t, job, ctx))

(***************************************************************************)
(* postInterp                                                              *)
(***************************************************************************)
\* the case labels of the dead push rewrite with PUSH_CURR_POS left out
DeadPushWithoutCurrPos ==
  {op.PUSH_EMPTY_ARRAY, op.PUSH_EMPTY_STRING, op.PUSH_FAILED, op.PUSH_NULL,
   op.PUSH_UNDEFINED}

DeadPushOpcodes == {op.PUSH_EMPTY_ARRAY, op.PUSH_EMPTY_STRING, op.PUSH_FAILED,
                    op.PUSH_NULL, op.PUSH_CURR_POS, op.PUSH_UNDEFINED}
PopChainOpcodes == {op.NIP, op.POP_N, op.POP}
FusableOpcodes == {op.IF_ERROR, op.IF_NOT_ERROR, op.IF_, op.WHILE_NOT_ERROR}

\* the first index from i on that holds no NIP, POP or POP_N
RECURSIVE ChainEnd(_, _)
ChainEnd(bc, i) ==
  IF i <= Len(bc) /\ bc[i].op \in PopChainOpcodes THEN ChainEnd(bc, i + 1) ELSE i

\* formatBytecode(flattenBc(code)): a fresh copy of code
CopyCode(code) == formatBytecode(flattenBc(code).flat).fbc

\* the part of postInterp after its first switch: the element at ip left a
\* condState and something follows it
postInterpCond(bc, ip, r) ==
  LET nextBc == Elem(bc, r.ip)
      \* f is the conditional with its branches extended, i the index of the
      \* first element that was not moved into them
      Extended(f, i) ==
        [r EXCEPT !.bc[ip] = f.elem, !.cs = f.cs, !.st = f.ctx.this,
                  !.mods = SpliceMods(r.ip, i - r.ip, <<>>), !.ip = i]
      Extend(job, i) ==
        Extended(FuseTraverse(bc[ip], r.cs, job,
                              [this |-> r.st, first |-> TRUE, next |-> nextBc]),
                 i)
      Counted(cnt) ==
        IF cnt.err # "" THEN [r EXCEPT !.st = Throw(@, cnt.err)]
        ELSE IF cnt.go /\ (IF cnt.numUnknown # 0
                           THEN cnt.numNonCheapThen = 0 /\ cnt.numNonCheapElse = 0
                           ELSE cnt.numNonCheapThen <= 1 /\ cnt.numNonCheapElse <= 1)
        THEN Extend([k |-> "fuse"], r.ip + 1)
        ELSE r
      Chain(i) ==
        Extend([k |-> "pops", code |-> CopyCode(SubSeq(bc, r.ip, i - 1))], i)
  IN
  IF r.cs.k = "none" \/ ~Exists(nextBc) THEN r
  ELSE IF nextBc.op \in FusableOpcodes
  THEN Counted(CountTraverse(bc[ip], r.cs, nextBc, Counts0))
  ELSE IF nextBc.op \in PopChainOpcodes THEN Chain(ChainEnd(bc, r.ip + 1))
  ELSE r

\* a postInterp that leaves every result as interp returned it
postInterpKeepsAll(bc, ip, r) == r

postInterp(bc, ip, r) ==
  LET cur == Elem(bc, ip)
      nextBc == Elem(bc, r.ip)
      st == r.st
      remove == [r EXCEPT !.mods = SpliceMods(ip, 1, <<>>)]
  IN
  IF ~Exists(cur) THEN [r EXCEPT !.st = Throw(@, "TypeError")]
  ELSE IF cur.op = op.POP_N /\ Arg(cur, 1) = 0 THEN remove
  ELSE IF cur.op = op.PLUCK /\ Len(cur.args) >= 3 /\ Arg(cur, 1) = 1
          /\ Arg(cur, 2) = 1 /\ Arg(cur, 3) = 0
  THEN remove
  ELSE IF cur.op \in DeadPushOpcodes \/ (cur.op = op.FAIL /\ st.silentFails # 0)
  THEN
    IF Exists(nextBc) /\ (nextBc.op = op.POP
                          \/ (nextBc.op = op.POP_N /\ Arg(nextBc, 1) # 0))
    THEN
      LET npops == IF nextBc.op = op.POP_N THEN Arg(nextBc, 1) ELSE 1
          replacements ==
            IF npops > 1
            THEN << IF npops > 2 THEN Flat(op.POP_N, <<npops - 1>>)
                    ELSE Flat(op.POP, <<>>) >>
            ELSE <<>>
      IN [r EXCEPT !.ip = r.ip + 1,
                   !.mods = SpliceMods(ip, r.ip + 1 - ip, replacements),
                   !.st = discard(st, npops)]
    ELSE IF cur.op = op.FAIL
    THEN [r EXCEPT !.mods = ModsTrue, !.bc[ip] = Flat(op.PUSH_FAILED, <<>>)]
    ELSE r
  ELSE IF cur.op = op.POP_CURR_POS THEN
    IF killsCurrPos(bc, r.ip)
    THEN [r EXCEPT !.mods = SpliceMods(ip, r.ip - ip, <<Flat(op.POP, <<>>)>>)]
    ELSE r
  ELSE postInterpCond(bc, ip,
         IF cur.op = op.SILENT_FAILS_ON /\ st.silentFails > 1 THEN remove
         ELSE IF cur.op = op.SILENT_FAILS_OFF /\ st.silentFails # 0 THEN remove
         ELSE r)

(***************************************************************************)
(* deadSlotRemoval: the tracking traversal                                 *)
(*                                                                         *)
(* A TrackedSlot object is named by the absIp (plus one) of the element    *)
(* that pushed it, 0 standing for null; d.heap maps the name to the        *)
(* object {instructions, slot}.  A block (container) is named by the absIp *)
(* at which its traversal starts.  d is the closure state of the pass:     *)
(* absIp, silentFails, silentGroups (the absIps of the grouped markers),   *)
(* nGroups, curSilentGroup (open, els), curSilentBlock, heap, err.         *)
(***************************************************************************)
Tracking0 ==
  [absIp |-> 0, silentFails |-> 0, silentGroups |-> {}, nGroups |-> 0,
   open |-> FALSE, els |-> {}, curSilentBlock |-> -1,
   heap |-> [x \in {} |-> 0], err |-> ""]

DThrow(d, e) == IF d.err = "" THEN [d EXCEPT !.err = e] ELSE d

Inst(container, ip, absIp) == [container |-> container, ip |-> ip, absIp |-> absIp]

AllFrom(d, slot, start) ==
  \A k \in 1..Len(d.heap[slot].instructions) :
    d.heap[slot].instructions[k].absIp >= start

\* s2i.instructions.forEach(inst => { checks; s1i.instructions.push(inst) })
RECURSIVE MergeInsts(_, _, _, _)
MergeInsts(d, s1i, insts, k) ==
  IF k > Len(insts) \/ d.err # "" THEN d
  ELSE
    LET inst == insts[k]
        mine == d.heap[s1i].instructions
    IN
    IF \E j \in 1..Len(mine) : mine[j].absIp = inst.absIp
    THEN DThrow(d, "Instructions for the same object were pushed by multiple blocks")
    ELSE IF \E j \in 1..Len(mine) : mine[j].container = inst.container
    THEN DThrow(d, "A single container can't have multiple dead-out instructions")
    ELSE MergeInsts([d EXCEPT !.heap[s1i].instructions = Append(@, inst)],
                    s1i, insts, k + 1)

\* merge(s1, endInst1, s2, endInst2, start), from index i on; an absent
\* endInst has container -1.  The result is [s1, d].
RECURSIVE MergeFrom(_, _, _, _, _, _, _)
MergeFrom(s1, endInst1, s2, endInst2, start, i, d) ==
  IF i > Len(s1) \/ d.err # "" THEN [s1 |-> s1, d |-> d]
  ELSE
    LET s1i == s1[i]
        s2i == s2[i]
        last == i = Len(s1)
    IN
    IF s1i = s2i THEN MergeFrom(s1, endInst1, s2, endInst2, start, i + 1, d)
    ELSE IF s1i = 0 THEN
      IF endInst1.container # -1 /\ last /\ AllFrom(d, s2i, start)
      THEN MergeFrom([s1 EXCEPT ![i] = s2i], endInst1, s2, endInst2, start, i + 1,
                     [d EXCEPT !.heap[s2i].instructions = Append(@, endInst1)])
      ELSE MergeFrom(s1, endInst1, s2, endInst2, start, i + 1, d)
    ELSE IF s2i = 0 THEN
      IF endInst2.container # -1 /\ last /\ AllFrom(d, s1i, start)
      THEN MergeFrom(s1, endInst1, s2, endInst2, start, i + 1,
                     [d EXCEPT !.heap[s1i].instructions = Append(@, endInst2)])
      ELSE MergeFrom([s1 EXCEPT ![i] = 0], endInst1, s2, endInst2, start, i + 1, d)
    ELSE IF d.heap[s1i].slot # d.heap[s2i].slot \/ d.heap[s2i].slot # i - 1
    THEN [s1 |-> s1, d |-> DThrow(d, "Slot mismatch")]
    ELSE MergeFrom(s1, endInst1, s2, endInst2, start, i + 1,
                   MergeInsts(d, s1i, d.heap[s2i].instructions, 1))

NoInst == Inst(-1, 0, 0)

TrackedMerge(s1, endInst1, s2, endInst2, start, d) ==
  IF Len(s1) # Len(s2) THEN [s1 |-> s1, d |-> DThrow(d, "Stack mismatch")]
  ELSE MergeFrom(s1, endInst1, s2, endInst2, start, 1, d)

\* an inspect that leaves the tracked stack as it is
TrackInspectOnly(t, depths) ==
  IF \E j \in 1..Len(depths) : depths[j] >= Len(t.ts)
  THEN [t EXCEPT !.d = DThrow(@, "Looking at a stack slot below the bottom of the stack")]
  ELSE t

\* trackBlock's inspect(depth), for each depth of a sequence; t is the
\* traversal's [ts, found, d]
RECURSIVE TrackInspect(_, _)
TrackInspect(t, depths) ==
  IF depths = <<>> \/ t.d.err # "" THEN t
  ELSE IF Head(depths) >= Len(t.ts)
  THEN [t EXCEPT !.d = DThrow(@, "Looking at a stack slot below the bottom of the stack")]
  ELSE TrackInspect([t EXCEPT !.ts[Len(t.ts) - Head(depths)] = 0], Tail(depths))

\* trackBlock's pop(n) by the element at ip of the block cid
RECURSIVE TrackPopEach(_, _, _, _, _)
TrackPopEach(t, n, cid, ip, isPop) ==
  IF n = 0 \/ t.d.err # "" THEN t
  ELSE
    LET slot == t.ts[Len(t.ts)]
        t1 == [t EXCEPT !.ts = SubSeq(@, 1, Len(@) - 1)]
        insts == t.d.heap[slot].instructions
    IN
    IF slot = 0 THEN TrackPopEach(t1, n - 1, cid, ip, isPop)
    ELSE IF insts[1].container = cid THEN
      IF Len(insts) # 1
      THEN [t1 EXCEPT !.d = DThrow(@, "A push pop pair in a single block")]
      ELSE IF insts[1].ip + 1 = ip /\ isPop
      THEN TrackPopEach(t1, n - 1, cid, ip, isPop)
      ELSE TrackPopEach([t1 EXCEPT !.found = Append(@, slot)], n - 1, cid, ip, isPop)
    ELSE IF \E k \in 1..Len(insts) : insts[k].container = cid
    THEN [t1 EXCEPT !.d = DThrow(@, "A push pop pair in a single block")]
    ELSE TrackPopEach([t1 EXCEPT !.found = Append(@, slot)], n - 1, cid, ip, isPop)

\* a pop that takes what the tracked stack holds
TrackPopAtMost(t, n, cid, ip, isPop) ==
  TrackPopEach(t, Min(n, Len(t.ts)), cid, ip, isPop)

TrackPop(t, n, cid, ip, isPop) ==
  IF t.d.err # "" THEN t
  ELSE IF n > Len(t.ts) THEN [t EXCEPT !.d = DThrow(@, "Too many pops")]
  ELSE TrackPopEach(t, n, cid, ip, isPop)

\* trackBlock's push(n), n being 0 or 1
TrackPush(t, n, cid, ip) ==
  IF n = 0 \/ t.d.err # "" THEN t
  ELSE LET id == t.d.absIp + 1 IN
    [t EXCEPT !.ts = Append(@, id),
              !.d.heap = (id :> [instructions |-> <<Inst(cid, ip, t.d.absIp)>>,
                                 slot |-> Len(t.ts)]) @@ @]

\* the slots of a sequence whose instructions all lie at or after localStart
\* (handleSlots moves them to foundSlots) and the others (it returns)
Local(d, slots, localStart) ==
  SelectSeq(slots, LAMBDA x : AllFrom(d, x, localStart))
NonLocal(d, slots, localStart) ==
  SelectSeq(slots, LAMBDA x : ~AllFrom(d, x, localStart))

\* the two-pointer walk over thenInst and elseInst: the slots in both
RECURSIVE Common(_, _, _, _, _)
Common(d, thenInst, elseInst, i, j) ==
  IF i > Len(thenInst) \/ j > Len(elseInst) THEN <<>>
  ELSE
    LET ti == thenInst[i]
        ej == elseInst[j]
        ts == d.heap[ti].slot
        es == d.heap[ej].slot
    IN (IF ti = ej THEN <<ti>> ELSE <<>>)
       \o Common(d, thenInst, elseInst,
                 IF ts >= es THEN i + 1 ELSE i, IF ts <= es THEN j + 1 ELSE j)

\* a traversal in which no opcode gives the open group up
ClosesNoGroup(o) == FALSE

\* the opcodes at which the open group is given up
ClosesGroup(o) == o \in {op.FAIL, op.CALL, op.RULE}

\* the switch at the head of trackBlock's loop, on the element at d.absIp
TrackSilent(d, bc, cid) ==
  IF bc.op = op.SILENT_FAILS_ON THEN
    LET d1 == IF d.silentFails = 0
              THEN [d EXCEPT !.open = TRUE, !.els = {}, !.curSilentBlock = cid]
              ELSE d
        d2 == [d1 EXCEPT !.silentFails = @ + 1]
    IN IF d2.open THEN [d2 EXCEPT !.els = @ \cup {d.absIp}] ELSE d2
  ELSE IF bc.op = op.SILENT_FAILS_OFF THEN
    LET d1 == [d EXCEPT !.silentFails = @ - 1] IN
    IF d1.open THEN
      LET d2 == [d1 EXCEPT !.els = @ \cup {d.absIp}] IN
      IF d2.silentFails = 0 THEN
        IF cid = d2.curSilentBlock
        THEN [d2 EXCEPT !.silentGroups = @ \cup d2.els, !.nGroups = @ + 1,
                        !.open = FALSE]
        ELSE [d2 EXCEPT !.open = FALSE]
      ELSE d2
    ELSE d1
  ELSE IF ClosesGroup(bc.op) THEN [d EXCEPT !.open = FALSE]
  ELSE d

\* trackBlock(bcs, trackedState): the result is [ts, found, d]
RECURSIVE trackBlock(_, _, _), TrackFrom(_, _, _, _)
TrackFrom(bcs, cid, ip, t) ==
  IF t.d.err # "" THEN t
  ELSE IF ip > Len(bcs) THEN [t EXCEPT !.d.absIp = @ + 1]
  ELSE
    LET bc == bcs[ip]
        code == getConditionalCode(bc)
        \* the stacks of the sub-blocks are merged: on with the next element
        Merged(m, found) ==
          TrackFrom(bcs, cid, ip + 1, [ts |-> m.s1, found |-> found, d |-> m.d])
        \* WHILE_NOT_ERROR: body is the traversal of its block
        WhileLoop(t1, loopStart, body) ==
          Merged(TrackedMerge(t1.ts, NoInst, body.ts, NoInst, loopStart, body.d),
                 t1.found \o Local(body.d, body.found, loopStart))
        \* a conditional: th and el are the traversals of its two branches
        Conditional(t1, condStart, th, el) ==
          LET thenInst == NonLocal(th.d, th.found, condStart)
              thenEndInst == Inst(condStart, Len(code[1]), th.d.absIp - 1)
              silentEnd == th.d.silentFails
              elseCid == th.d.absIp
              elseInst == NonLocal(el.d, el.found, condStart)
              elseEndInst == Inst(elseCid, Len(code[2]), el.d.absIp - 1)
              thenState == IF Len(code[2]) = 0 /\ Len(th.ts) > Len(el.ts)
                           THEN SubSeq(th.ts, 1, Len(el.ts)) ELSE th.ts
              found2 == t1.found \o Local(th.d, th.found, condStart)
                        \o Local(el.d, el.found, condStart)
                        \o Common(el.d, thenInst, elseInst, 1, 1)
          IN
          IF th.d.err # "" THEN th
          ELSE IF el.d.err # "" THEN el
          ELSE IF el.d.silentFails # silentEnd
          THEN [el EXCEPT !.d = DThrow(@, "Mismatched SILENT_FAILS")]
          ELSE Merged(TrackedMerge(el.ts, elseEndInst, thenState, thenEndInst,
                                   condStart, el.d),
                      found2)
        Else(t1, condStart, silentStart, th) ==
          Conditional(t1, condStart, th,
               trackBlock(code[2], t1.ts, [th.d EXCEPT !.silentFails = silentStart]))
        \* t1 is the traversal after the element's own inspects, pops and pushes
        Tracked(e, t1) ==
          IF t1.d.err # "" THEN t1
          ELSE IF ~e.sub
          THEN TrackFrom(bcs, cid, ip + 1, [t1 EXCEPT !.d.absIp = @ + 1])
          ELSE IF bc.op = op.WHILE_NOT_ERROR
          THEN WhileLoop(t1, t1.d.absIp + 1,
                    trackBlock(bc.blocks[1], t1.ts,
                               [t1.d EXCEPT !.absIp = t1.d.absIp + 1]))
          ELSE Else(t1, t1.d.absIp + 1, t1.d.silentFails,
                    trackBlock(code[1], t1.ts,
                               [t1.d EXCEPT !.absIp = t1.d.absIp + 1]))
        Effect(e, t0) ==
          Tracked(e, TrackPush(TrackPop(TrackInspect(t0, e.inspects), e.pops, cid,
                                        ip - 1, bc.op \in {op.POP, op.POP_N}),
                               e.pushes, cid, ip - 1))
    IN Effect(pushPops(bc), [t EXCEPT !.d = TrackSilent(@, bc, cid)])

trackBlock(bcs, trackedState, d) ==
  TrackFrom(bcs, d.absIp, 1, [ts |-> trackedState, found |-> <<>>, d |-> d])

(***************************************************************************)
(* deadSlotRemoval: marking and applyKills                                 *)
(***************************************************************************)
\* toDo[inst.absIp] = slot for every instruction of every killed slot; the
\* result is [toDo, err], toDo mapping an absIp to the slot's number
RECURSIVE MarkInsts(_, _, _, _), MarkSlots(_, _, _, _)
MarkInsts(m, insts, k, slotNo) ==
  IF k > Len(insts) \/ m.err # "" THEN m
  ELSE IF insts[k].absIp \in DOMAIN m.toDo
  THEN [m EXCEPT !.err = "Bytecode marked dead more than once"]
  ELSE MarkInsts([m EXCEPT !.toDo = (insts[k].absIp :> slotNo) @@ @],
                 insts, k + 1, slotNo)

MarkSlots(m, d, killedSlots, k) ==
  IF k > Len(killedSlots) \/ m.err # "" THEN m
  ELSE MarkSlots(MarkInsts(m, d.heap[killedSlots[k]].instructions, 1,
                           d.heap[killedSlots[k]].slot),
                 d, killedSlots, k + 1)

\* every grouped SILENT_FAILS marker becomes [POP_N, 0]; a is the absIp of
\* the block's first element.  The result is [bcs, absIp].
RECURSIVE ClearSilent(_, _, _, _)
ClearSilent(bcs, ip, a, group) ==
  IF ip > Len(bcs) THEN [bcs |-> bcs, absIp |-> a + 1]
  ELSE
    LET bc == bcs[ip] IN
    IF Len(bc.blocks) = 0 THEN
      ClearSilent(IF a \in group THEN [bcs EXCEPT ![ip] = Flat(op.POP_N, <<0>>)]
                  ELSE bcs, ip + 1, a + 1, group)
    ELSE IF Len(bc.blocks) = 1 THEN
      LET b == ClearSilent(bc.blocks[1], 1, a + 1, group) IN
      ClearSilent([bcs EXCEPT ![ip].blocks = <<b.bcs>>], ip + 1, b.absIp, group)
    ELSE
      LET b1 == ClearSilent(bc.blocks[1], 1, a + 1, group)
          b2 == ClearSilent(bc.blocks[2], 1, b1.absIp, group)
      IN ClearSilent([bcs EXCEPT ![ip].blocks = <<b1.bcs, b2.bcs>>],
                     ip + 1, b2.absIp, group)

\* inFlightKilledSlots.forEach(slot => fixupForStackRemoval(bc, sd - slot - 1)),
\* the slots taken in increasing order
RECURSIVE FixupAll(_, _, _, _)
FixupAll(bc, sd, inFlight, from) ==
  IF ~Exists(bc) \/ \A x \in inFlight : x < from THEN bc
  ELSE LET slot == CHOOSE x \in inFlight : x >= from
                     /\ \A y \in inFlight : y >= from => x <= y
       IN FixupAll(fixupForStackRemoval(bc, sd - slot - 1), sd, inFlight, slot + 1)

\* applyKills(bcs, stackDepth, inFlightKilledSlots) from element ip on; k
\* is the closure state [absIp, toDo, err].  The result is
\* [bcs, sd, inFlight, k].
RECURSIVE applyKills(_, _, _, _), KillsFrom(_, _, _, _, _)
KillsFrom(bcs, ip, stackDepth, inFlight, k) ==
  IF k.err # "" THEN [bcs |-> bcs, sd |-> stackDepth, inFlight |-> inFlight, k |-> k]
  ELSE IF ip > Len(bcs) THEN
    IF k.absIp \in DOMAIN k.toDo
    THEN [bcs |-> Append(bcs, Flat(op.POP, <<>>)), sd |-> stackDepth,
          inFlight |-> inFlight \cup {stackDepth - 1},
          k |-> [k EXCEPT !.absIp = @ + 1,
                          !.toDo = [x \in DOMAIN @ \ {k.absIp} |-> @[x]]]]
    ELSE [bcs |-> bcs, sd |-> stackDepth, inFlight |-> inFlight,
          k |-> [k EXCEPT !.absIp = @ + 1]]
  ELSE
    LET bc == bcs[ip]
        aip == k.absIp
        sd == stackDepth
        toPush == aip \in DOMAIN k.toDo
        ip1 == IF toPush THEN ip + 1 ELSE ip
        k1 == [k EXCEPT !.absIp = @ + 1,
                        !.toDo = [x \in DOMAIN @ \ {aip} |-> @[x]]]
        code == getConditionalCode(bc)
        Failed(e) ==
          [bcs |-> bcs, sd |-> sd, inFlight |-> inFlight, k |-> [k EXCEPT !.err = e]]
        \* WHILE_NOT_ERROR: b is applyKills of its block
        WhileLoop(bcs1, b) ==
          KillsFrom([bcs1 EXCEPT ![ip1].blocks = <<b.bcs>>], ip1 + 1, b.sd,
                    b.inFlight, b.k)
        \* a conditional: th and el are applyKills of its two branches
        Conditional(bcs2, th, el) ==
          IF el.k.err = "" /\ th.sd # el.sd /\ (th.sd < el.sd \/ Len(el.bcs) # 0)
          THEN [bcs |-> bcs2, sd |-> el.sd, inFlight |-> el.inFlight,
                k |-> [el.k EXCEPT !.err = "Stack Mismatch"]]
          ELSE KillsFrom(bcs2, ip1 + 1, el.sd, el.inFlight, el.k)
        Both(bcs1, th, el) ==
          Conditional([bcs1 EXCEPT ![ip1].blocks = <<th.bcs, el.bcs>>], th, el)
        Else(bcs1, sd2, inFlight2, th) ==
          Both(bcs1, th, applyKills(code[2], sd2, inFlight2, th.k))
        \* the element itself is rewritten: on with its blocks or what follows
        Sub(e, bcs1, sd2, inFlight2) ==
          IF ~e.sub THEN KillsFrom(bcs1, ip1 + 1, sd2, inFlight2, k1)
          ELSE IF bc.op = op.WHILE_NOT_ERROR
          THEN WhileLoop(bcs1, applyKills(bc.blocks[1], sd2, inFlight2, k1))
          ELSE Else(bcs1, sd2, inFlight2, applyKills(code[1], sd2, inFlight2, k1))
        Pushed(e, fixed, sd1, inFlight1) ==
          IF toPush /\ e.pushes # 1
          THEN Failed("Expected bc to push exactly one element")
          ELSE IF toPush /\ k.toDo[aip] # sd1
          THEN Failed("Bytecode did not push its output to the expected stack slot")
          ELSE Sub(e,
                   IF toPush
                   THEN Splice(bcs, ip, 1, <<fixed, Flat(op.POP, <<>>)>>)
                   ELSE [bcs EXCEPT ![ip] = fixed],
                   sd1 + e.pushes,
                   IF toPush THEN inFlight1 \cup {sd1} ELSE inFlight1)
        Popped(e, sd1) ==
          IF \E j \in 1..Len(e.inspects) : (sd - e.inspects[j] - 1) \in inFlight
          THEN Failed("Bytecode read killed slot")
          ELSE Pushed(e, OrNoop(FixupAll(bc, sd, inFlight, 0)), sd1,
                      IF e.pops # 0 THEN {x \in inFlight : x < sd1} ELSE inFlight)
        Effect(e) == Popped(e, sd - e.pops)
    IN Effect(pushPops(bc))

applyKills(bcs, stackDepth, inFlight, k) == KillsFrom(bcs, 1, stackDepth, inFlight, k)

\* deadSlotRemoval(name, bcs): the result is [bcs, changed, err]
deadSlotRemoval(bcs) ==
  LET Applied(a) == [bcs |-> a.bcs, changed |-> TRUE, err |-> a.k.err]
      \* m is toDo, cleared the block without its grouped markers
      Marked(t, cleared, m) ==
        IF Len(t.found) = 0
        THEN [bcs |-> cleared, changed |-> t.d.nGroups # 0, err |-> ""]
        ELSE IF m.err # "" THEN [bcs |-> cleared, changed |-> FALSE, err |-> m.err]
        ELSE Applied(applyKills(cleared, 0, {},
                                [absIp |-> 0, toDo |-> m.toDo, err |-> ""]))
      Tracked(t) ==
        IF t.d.err # "" THEN [bcs |-> bcs, changed |-> FALSE, err |-> t.d.err]
        ELSE Marked(t,
                    IF t.d.nGroups # 0
                    THEN ClearSilent(bcs, 1, 0, t.d.silentGroups).bcs ELSE bcs,
                    MarkSlots([toDo |-> [x \in {} |-> 0], err |-> ""],
                              t.d, t.found, 1))
  IN Tracked(trackBlock(bcs, <<>>, Tracking0))

(***************************************************************************)
(* optimizeBlock                                                           *)
(***************************************************************************)
\* the most passes the driver's loop is followed for
MaxPasses == 24

\* optimizeBlock's for (;;) loop on the tree, as a function: the result is
\* [err, fbc, changes]
RECURSIVE OptimizeLoop(_, _, _, _, _)
OptimizeLoop(ast, tree, chg, nd, n) ==
  LET \* d is deadSlotRemoval of the block the peephole pass r left unchanged
      Dead(r, d) ==
        IF d.err # "" THEN [err |-> d.err, fbc |-> tree, changes |-> chg]
        ELSE IF d.changed THEN OptimizeLoop(ast, d.bcs, TRUE, nd, n + 1)
        ELSE [err |-> "", fbc |-> r.bc, changes |-> chg]
      Ran(r) ==
        IF ~Ok(r.st) THEN [err |-> r.st.err, fbc |-> tree, changes |-> chg]
        ELSE IF n >= MaxPasses
        THEN [err |-> "no fixed point", fbc |-> tree, changes |-> chg]
        ELSE IF r.changes THEN OptimizeLoop(ast, r.bc, TRUE, nd, n + 1)
        ELSE IF nd THEN [err |-> "", fbc |-> r.bc, changes |-> chg]
        ELSE Dead(r, deadSlotRemoval(r.bc))
  IN Ran(run(tree, InterpState(ast, TRUE)))

\* optimizeBlock(ast, bytecode, name, log, nodead): [err, bc]
optimizeBlock(ast, bc, nd) ==
  LET Optimized(l) ==
        IF l.err # "" THEN [err |-> l.err, bc |-> bc]
        ELSE [err |-> "", bc |-> IF l.changes THEN flattenBc(l.fbc).flat ELSE bc]
      Formatted(f) ==
        IF f.err THEN [err |-> "Invalid opcode", bc |-> bc]
        ELSE Optimized(OptimizeLoop(ast, f.fbc, FALSE, nd, 0))
  IN Formatted(formatBytecode(bc))

\* ast.rules[r].match of the grammar the blocks belong to, for r = 0, 1, 2
Grammar == <<0, 1, -1>>

\* The same function step by step.  pc is the position in optimizeBlock,
\* round tells whether the block is the input (1) or the first call's
\* result handed to optimizeBlock again (2).
Format ==
  /\ pc = "format"
  /\ LET Formatted(f) ==
           IF f.err
           THEN pc' = "done" /\ err' = "Invalid opcode" /\ fbc' = fbc
           ELSE pc' = "run" /\ err' = err /\ fbc' = f.fbc
     IN Formatted(formatBytecode(bytecode))
  /\ changes' = FALSE
  /\ passes' = 0
  /\ UNCHANGED <<bytecode, out, nodead, round, prev, rules, output, idx>>

\* the peephole pass of a driver that does not repeat it after a change
PeepholePassOnce ==
  /\ pc = "run"
  /\ passes < MaxPasses
  /\ LET Ran(r) ==
           IF ~Ok(r.st)
           THEN pc' = "done" /\ err' = r.st.err /\ UNCHANGED <<fbc, changes, passes>>
           ELSE /\ pc' = (IF nodead THEN "flatten" ELSE "dead")
                /\ fbc' = r.bc
                /\ changes' = (changes \/ r.changes)
                /\ passes' = (IF r.changes THEN passes + 1 ELSE passes)
                /\ err' = err
     IN Ran(run(fbc, InterpState(rules, TRUE)))
  /\ UNCHANGED <<bytecode, out, nodead, round, prev, rules, output, idx>>

PeepholePass ==
  /\ pc = "run"
  /\ passes < MaxPasses
  /\ LET Ran(r) ==
           IF ~Ok(r.st)
           THEN pc' = "done" /\ err' = r.st.err /\ UNCHANGED <<fbc, changes, passes>>
           ELSE IF r.changes
           THEN pc' = "run" /\ fbc' = r.bc /\ changes' = TRUE
                /\ passes' = passes + 1 /\ err' = err
           ELSE pc' = (IF nodead THEN "flatten" ELSE "dead") /\ fbc' = r.bc
                /\ UNCHANGED <<changes, passes, err>>
     IN Ran(run(fbc, InterpState(rules, TRUE)))
  /\ UNCHANGED <<bytecode, out, nodead, round, prev, rules, output, idx>>

\* a dead-slot pass after whose change the driver leaves the loop
DeadSlotPassLast ==
  /\ pc = "dead"
  /\ LET Dead(d) ==
           IF d.err # ""
           THEN pc' = "done" /\ err' = d.err /\ UNCHANGED <<fbc, changes, passes>>
           ELSE IF d.changed
           THEN pc' = "flatten" /\ fbc' = d.bcs /\ changes' = TRUE
                /\ passes' = passes + 1 /\ err' = err
           ELSE pc' = "flatten" /\ UNCHANGED <<fbc, changes, passes, err>>
     IN Dead(deadSlotRemoval(fbc))
  /\ UNCHANGED <<bytecode, out, nodead, round, prev, rules, output, idx>>

DeadSlotPass ==
  /\ pc = "dead"
  /\ LET Dead(d) ==
           IF d.err # ""
           THEN pc' = "done" /\ err' = d.err /\ UNCHANGED <<fbc, changes, passes>>
           ELSE IF d.changed
           THEN pc' = "run" /\ fbc' = d.bcs /\ changes' = TRUE
                /\ passes' = passes + 1 /\ err' = err
           ELSE pc' = "flatten" /\ UNCHANGED <<fbc, changes, passes, err>>
     IN Dead(deadSlotRemoval(fbc))
  /\ UNCHANGED <<bytecode, out, nodead, round, prev, rules, output, idx>>

Flatten ==
  /\ pc = "flatten"
  /\ out' = IF changes THEN flattenBc(fbc).flat ELSE bytecode
  /\ pc' = "done"
  /\ UNCHANGED <<bytecode, fbc, changes, err, nodead, passes, round, prev,
                 rules, output, idx>>

\* optimizeBlock is called again on what it returned
Reoptimize ==
  /\ pc = "done" /\ round = 1 /\ err = ""
  /\ prev' = [bytecode |-> bytecode, out |-> out]
  /\ bytecode' = out
  /\ round' = 2
  /\ pc' = "format"
  /\ UNCHANGED <<fbc, changes, out, err, nodead, passes, rules, output, idx>>

(***************************************************************************)
(* The blocks optimizeBlock is started on                                  *)
(***************************************************************************)
PushNull == Flat(op.PUSH_NULL, <<>>)
PushUndefined == Flat(op.PUSH_UNDEFINED, <<>>)
PushFailed == Flat(op.PUSH_FAILED, <<>>)
PushEmptyArray == Flat(op.PUSH_EMPTY_ARRAY, <<>>)
PushEmptyString == Flat(op.PUSH_EMPTY_STRING, <<>>)
PushCurrPos == Flat(op.PUSH_CURR_POS, <<>>)
Pop == Flat(op.POP, <<>>)
PopCurrPos == Flat(op.POP_CURR_POS, <<>>)
PopN(n) == Flat(op.POP_N, <<n>>)
AcceptN == Flat(op.ACCEPT_N, <<1>>)
Fail == Flat(op.FAIL, <<0>>)
Rule(r) == Flat(op.RULE, <<r>>)

\* the most constant pushes in a row that are discarded again
MaxPushes == 3
\* the longest block of position saves, rule calls and restores
MaxPosLen == 6

ConstantPushes ==
  {PushNull, PushUndefined, PushEmptyArray, PushEmptyString, PushFailed,
   PushCurrPos}

\* n constant pushes, then n POPs or one POP_N n
PushPops ==
  UNION {UNION {{ps \o [i \in 1..n |-> Pop], ps \o <<PopN(n)>>} :
                  ps \in [1..n -> ConstantPushes]} : n \in 1..MaxPushes}

\* saved positions, rule calls, discards and restores
PosOps == {PushCurrPos, Rule(0), Pop, PopCurrPos}
Positions == UNION {[1..n -> PosOps] : n \in 1..MaxPosLen}

\* one conditional or loop between a producer and a consumer
Branches ==
  {<<>>, <<PushNull>>, <<AcceptN>>, <<Fail>>, <<Pop>>, <<Pop, PushNull>>,
   <<Pop, Rule(0)>>, <<PushNull, PushNull>>}
CondOps == {op.IF_, op.IF_ERROR, op.IF_NOT_ERROR, op.MATCH_CHAR_CLASS}
CondArgs(o) == IF o = op.MATCH_CHAR_CLASS THEN <<0>> ELSE <<>>
Conds == {Cond(o, CondArgs(o), t, e) : o \in CondOps, t \in Branches, e \in Branches}
Loops == {Loop(<<Pop, Rule(0)>>), Loop(<<Pop, PushNull>>)}
Pre ==
  {<<>>, <<PushNull>>, <<PushFailed>>, <<PushEmptyArray>>, <<PushCurrPos>>,
   <<Rule(0)>>, <<Rule(1)>>, <<Rule(2)>>, <<AcceptN>>}
Post == {<<>>, <<Pop>>, <<PushNull>>}
Guarded == {a \o <<c>> \o b : a \in Pre, c \in Conds \cup Loops, b \in Post}

\* a conditional that produces a value, followed by one that tests it
Producers == {<<PushNull>>, <<PushFailed>>, <<AcceptN>>, <<Rule(0)>>}
Arms == {<<>>, <<Pop, PushNull>>, <<Pop, Rule(0)>>}
Chained ==
  {<<Cond(op.MATCH_CHAR_CLASS, <<0>>, t, e), Cond(o, <<>>, a, b)>> \o c :
     t \in Producers, e \in Producers,
     o \in {op.IF_, op.IF_ERROR, op.IF_NOT_ERROR}, a \in Arms, b \in Arms,
     c \in {<<>>, <<Pop>>}}

\* short blocks without conditionals that shuffle and discard values
MaxMixedLen == 4
MixedOps ==
  {PushNull, PushCurrPos, Rule(0), AcceptN, Pop, PopCurrPos, Flat(op.NIP, <<>>),
   Flat(op.TEXT, <<>>), Flat(op.WRAP, <<1>>), Flat(op.PLUCK, <<2, 1, 0>>)}
Mixed == UNION {[1..n -> MixedOps] : n \in 1..MaxMixedLen}

\* what a visitor-less InterpState makes of a tree
plain(tree) == run(tree, InterpState(Grammar, FALSE))
\* the flat blocks a visitor-less InterpState interprets without error
Accepted(trees) == {flattenBc(t).flat : t \in {x \in trees : Ok(plain(x).st)}}
Blocks == Accepted(PushPops \cup Positions \cup Guarded \cup Chained \cup Mixed)

Init ==
  /\ pc = "format"
  /\ bytecode \in Blocks
  /\ nodead \in BOOLEAN
  /\ fbc = <<>>
  /\ changes = FALSE
  /\ out = <<>>
  /\ err = ""
  /\ passes = 0
  /\ round = 1
  /\ prev = [bytecode |-> <<>>, out |-> <<>>]
  /\ rules = Grammar
  /\ output = "parser"
  /\ idx = 0

Next == Format \/ PeepholePass \/ DeadSlotPass \/ Flatten \/ Reoptimize

Spec == Init /\ [][Next]_vars

(***************************************************************************)
(* Properties of optimizeBlock                                             *)
(***************************************************************************)
Tree(bc) == formatBytecode(bc).fbc
\* optimizeBlock has returned out for the input bytecode
Returned == pc = "done" /\ round = 1 /\ err = ""
\* the initial value of currPos carries identity 1
InitialPos == InterpState(Grammar, FALSE).currPos.value

\* C1: when optimizeBlock returns, a visitor-less interpretation of the
\* result succeeds and ends with the stack depth and the silentFails count
\* that the interpretation of the input ends with.
StackEffectPreserved ==
  Returned =>
    LET a == plain(Tree(bytecode)).st
        b == plain(Tree(out)).st
    IN /\ Ok(b)
       /\ Len(b.stack) = Len(a.stack)
       /\ b.silentFails = a.silentFails

\* C2: when the interpretation of the input ends with currPos restored to
\* the position saved at the start of the block, so does the interpretation
\* of the result of optimizeBlock, also when stacked copies of that saved
\* position are restored by consecutive POP_CURR_POS.
FinalPositionPreserved ==
  Returned =>
    LET a == plain(Tree(bytecode)).st
        b == plain(Tree(out)).st
    IN a.currPos.value = InitialPos =>
         (Ok(b) /\ b.currPos.value = InitialPos)

\* C3: optimizeBlock throws nothing on a block that the visitor-less
\* interpretation accepts.
NoErrorOnValidInput == pc = "done" => err = ""

\* C4: optimizeBlock applied to its own result throws nothing, runs one
\* peephole pass (and one dead-slot pass) that report no change, and returns
\* the same flat sequence.
Idempotence ==
  (pc = "done" /\ round = 2) =>
    /\ err = ""
    /\ ~changes
    /\ passes = 0
    /\ out = prev.out

\* the second call has returned a result that the first call had to work for
IdempotenceWitness ==
  /\ pc = "done" /\ round = 2 /\ err = ""
  /\ prev.out # prev.bytecode
  /\ prev.out # <<>>
  /\ out = prev.out

\* C6: optimizeBlock ends only after a peephole pass and (unless nodead) a
\* dead-slot pass that both reported no change, and never needs MaxPasses
\* passes to get there.
ReachesFixedPoint ==
  [][(pc' = "done" => pc = "flatten") /\ passes' < MaxPasses]_vars

\* the number of elements of a tree whose opcode is not in kinds
RECURSIVE CountOutside(_, _)
CountOutside(tree, kinds) ==
  IF tree = <<>> THEN 0
  ELSE LET e == Head(tree)
           RECURSIVE Inner(_)
           Inner(k) == IF k > Len(e.blocks) THEN 0
                       ELSE CountOutside(e.blocks[k], kinds) + Inner(k + 1)
       IN (IF e.op \in kinds THEN 0 ELSE 1) + Inner(1)
           + CountOutside(Tail(tree), kinds)

AllOpcodes == 0..40

\* C7: a result that differs from the input is not longer than the input,
\* and is shorter or has fewer elements of some opcode.
MonotoneProgress ==
  (Returned /\ out # bytecode) =>
    /\ Len(out) <= Len(bytecode)
    /\ \/ Len(out) < Len(bytecode)
       \/ \E o \in AllOpcodes :
            CountOutside(Tree(out), AllOpcodes \ {o})
              < CountOutside(Tree(bytecode), AllOpcodes \ {o})

\* C10: n constant pushes followed by n POPs, or by one POP_N n, are
\* optimized to the empty sequence.
DeadPushPopElimination ==
  (pc = "done" /\ round = 1 /\ Tree(bytecode) \in PushPops) =>
    (err = "" /\ out = <<>>)

\* MaxPushes pushes discarded by one POP_N were optimized away
DeadPushPopWitness ==
  /\ Returned
  /\ Tree(bytecode) \in PushPops
  /\ Len(bytecode) = MaxPushes + 2
  /\ bytecode[1] = op.PUSH_CURR_POS
  /\ out = <<>>

(***************************************************************************)
(* formatBytecode and flattenBc on their own                               *)
(***************************************************************************)
CodecFlats ==
  {PushNull, Pop, PopN(2), Rule(0), AcceptN, Flat(op.PLUCK, <<2, 1, 0>>),
   Flat(op.PLUCK, <<3, 2, 0, 1>>), Flat(op.CALL, <<0, 1, 2, 0, 1>>),
   Flat(op.CALL, <<0, 0, 0>>), Flat(op.SOURCE_MAP_LABEL_PUSH, <<1, 2, 3>>)}
CodecBranches == {<<>>} \cup {<<x>> : x \in CodecFlats} \cup {<<PushNull, Pop>>}
CodecOps == {op.IF_, op.MATCH_ANY, op.MATCH_STRING, op.IF_LT}
CodecArgs(o) == IF o \in Cond1Opcodes THEN <<3>> ELSE <<>>
CodecConds ==
  {Cond(o, CodecArgs(o), t, e) : o \in CodecOps, t \in CodecBranches, e \in CodecBranches}
  \cup {Loop(b) : b \in CodecBranches}
\* a conditional or loop inside a branch or a loop body
CodecNested ==
  {Cond(o, CodecArgs(o), <<c>>, e) :
     o \in {op.IF_ERROR, op.MATCH_CHAR_CLASS},
     c \in {Loop(<<Pop, Rule(0)>>), Cond(op.IF_GE, <<1>>, <<AcceptN>>, <<Pop, Fail>>),
            Cond(op.IF_NOT_ERROR, <<>>, <<>>, <<>>)},
     e \in CodecBranches}
  \cup {Loop(<<Cond(o, CodecArgs(o), t, <<>>), Pop>>) : o \in CodecOps, t \in CodecBranches}
CodecTrees ==
  {a \o <<c>> \o b : a \in {<<>>, <<PushNull>>, <<Flat(op.PLUCK, <<2, 1, 0>>)>>},
                     c \in CodecConds \cup CodecNested \cup {Flat(o, <<>>) : o \in FormatLen1},
                     b \in {<<>>, <<Pop>>, <<Flat(op.CALL, <<0, 1, 2, 0, 1>>)>>}}

CodecInit ==
  /\ pc = "codec"
  /\ bytecode \in {flattenBc(t).flat : t \in CodecTrees}
  /\ fbc = <<>>
  /\ changes = FALSE
  /\ out = <<>>
  /\ err = ""
  /\ nodead = FALSE
  /\ passes = 0
  /\ round = 1
  /\ prev = <<>>
  /\ rules = Grammar
  /\ output = "parser"
  /\ idx = 0

CodecFormat ==
  /\ pc = "codec"
  /\ LET f == formatBytecode(bytecode) IN
     /\ fbc' = f.fbc
     /\ err' = IF f.err THEN "Invalid opcode" ELSE err
     /\ pc' = IF f.err THEN "thrown" ELSE "formatted"
  /\ UNCHANGED <<bytecode, changes, out, nodead, passes, round, prev, rules,
                 output, idx>>

CodecFlatten ==
  /\ pc = "formatted"
  /\ LET f == flattenBc(fbc) IN
     /\ out' = f.flat
     /\ err' = IF f.err THEN "Invalid formatted bytecode" ELSE err
     /\ pc' = IF f.err THEN "thrown" ELSE "flattened"
  /\ UNCHANGED <<bytecode, fbc, changes, nodead, passes, round, prev, rules,
                 output, idx>>

CodecNext == CodecFormat \/ CodecFlatten

SpecCodec == CodecInit /\ [][CodecNext]_vars

\* every element of the tree holds its opcode and arguments only: no
\* conditional or loop keeps a length of its blocks
RECURSIVE NoLengthStored(_)
NoLengthStored(tree) ==
  \A i \in 1..Len(tree) :
    LET e == tree[i] IN
    /\ Len(e.blocks) = 2 => Len(e.args) = getConditionalArgCount(e.op)
    /\ Len(e.blocks) = 1 => e.args = <<>>
    /\ \A k \in 1..Len(e.blocks) : NoLengthStored(e.blocks[k])

\* C5: formatBytecode followed by flattenBc gives back the well-formed flat
\* stream it was given, and the tree in between stores no block length.
RoundTrip ==
  /\ pc # "thrown"
  /\ pc \in {"formatted", "flattened"} => NoLengthStored(fbc)
  /\ pc = "flattened" => out = bytecode

\* a stream with a conditional nested in a loop made the round trip
RoundTripWitness ==
  /\ pc = "flattened"
  /\ out = bytecode
  /\ \E i \in 1..Len(fbc) :
       /\ fbc[i].op = op.WHILE_NOT_ERROR
       /\ Len(fbc[i].blocks[1]) = 2
       /\ fbc[i].blocks[1][1].op = op.MATCH_STRING
       /\ fbc[i].blocks[1][1].blocks[1] # <<>>

(***************************************************************************)
(* A visitor-less run over a block with one IF, IF_ERROR or IF_NOT_ERROR   *)
(***************************************************************************)
Tested ==
  {PushEmptyArray, PushNull, PushUndefined, PushFailed, PushEmptyString,
   PushCurrPos, Rule(0), Rule(1), Rule(2), AcceptN}
RunBranches ==
  {<<>>, <<AcceptN>>, <<Flat(op.FAIL, <<1>>)>>, <<Pop, PushNull>>,
   <<Pop, Rule(0), Flat(op.TEXT, <<>>)>>}
RunTails == {<<>>, <<Pop>>, <<Flat(op.NIP, <<>>), PushNull>>}
RunTrees ==
  {<<a, Cond(o, <<>>, t, e)>> \o b :
     a \in Tested, o \in {op.IF_, op.IF_ERROR, op.IF_NOT_ERROR},
     t \in RunBranches, e \in RunBranches, b \in RunTails}

RunInit ==
  /\ pc = "tree"
  /\ fbc \in RunTrees
  /\ bytecode = <<>>
  /\ changes = FALSE
  /\ out = <<>>
  /\ err = ""
  /\ nodead = FALSE
  /\ passes = 0
  /\ round = 1
  /\ prev = <<>>
  /\ rules = Grammar
  /\ output = "parser"
  /\ idx = 0

\* the block is kept (prev) and flattened, as a test does before it compares
Snapshot ==
  /\ pc = "tree"
  /\ prev' = fbc
  /\ bytecode' = flattenBc(fbc).flat
  /\ pc' = "interp"
  /\ UNCHANGED <<fbc, changes, out, err, nodead, passes, round, rules, output, idx>>

\* new InterpState(name, ast).run(fbc): no visitor is installed, looping is 0
PlainRun ==
  /\ pc = "interp"
  /\ LET r == run(fbc, InterpState(rules, FALSE)) IN
     /\ fbc' = r.bc
     /\ changes' = r.changes
     /\ err' = r.st.err
     /\ out' = flattenBc(r.bc).flat
  /\ pc' = "interpreted"
  /\ UNCHANGED <<bytecode, nodead, passes, round, prev, rules, output, idx>>

RunNext == Snapshot \/ PlainRun

SpecRun == RunInit /\ [][RunNext]_vars

\* the abstract value the first element of the block leaves on the stack
TestedTop == topValue(plain(<<prev[1]>>).st).type

\* which branch the top of the stack selects: 1 then, 2 else, 0 undecided
Selected ==
  LET o == prev[2].op
      t == TestedTop
      truthy == BitAnd(t, BitOr(TypeTag.ARRAY, TypeTag.FAILED)) = t /\ t # 0
      falsy  == BitAnd(t, BitOr(TypeTag.NULL, TypeTag.UNDEFINED)) = t /\ t # 0
      failed == t = TypeTag.FAILED
      never  == BitAnd(t, TypeTag.FAILED) = 0
  IN IF o = op.IF_ THEN (IF truthy THEN 1 ELSE IF falsy THEN 2 ELSE 0)
     ELSE IF o = op.IF_ERROR THEN (IF failed THEN 1 ELSE IF never THEN 2 ELSE 0)
     ELSE (IF never THEN 1 ELSE IF failed THEN 2 ELSE 0)

\* C9: when the top of the stack decides an IF, IF_ERROR or IF_NOT_ERROR,
\* the run replaces the conditional by the elements of the selected branch,
\* keeps the elements around it and reports a change.
DecidedConditionalsCollapse ==
  (pc = "interpreted" /\ err = "" /\ Selected # 0) =>
    /\ changes
    /\ fbc = <<prev[1]>> \o prev[2].blocks[Selected] \o SubSeq(prev, 3, Len(prev))

\* [PUSH_NULL, IF [ACCEPT_N 1] [FAIL 1]] has become [PUSH_NULL, FAIL 1]
CollapseWitness ==
  /\ pc = "interpreted" /\ err = ""
  /\ bytecode = <<op.PUSH_NULL, op.IF_, 2, 2, op.ACCEPT_N, 1, op.FAIL, 1>>
  /\ Selected = 2
  /\ out = <<op.PUSH_NULL, op.FAIL, 1>>

(***************************************************************************)
(* optimizeBytecode                                                        *)
(***************************************************************************)
\* the source-map outputs without the inline variant
SourceAndMapOnly == {"source-and-map"}

\* the values of options.output for which the pass returns at once
SourceMapOutputs == {"source-and-map", "source-with-inline-map"}
Outputs == {"parser", "source", "source-and-map", "source-with-inline-map"}

\* ast.rules[i].match of every rule, as InterpState reads it
Matches(rs) == [i \in 1..Len(rs) |-> rs[i].match]

\* the rules of a grammar: has tells whether rule.bytecode is set
RuleBlocks ==
  {flattenBc(t).flat : t \in
     {<<>>,
      <<PushNull, Pop>>,
      <<PushCurrPos, Rule(0), Pop, PopCurrPos>>,
      <<Rule(1), Cond(op.IF_ERROR, <<>>, <<Pop, PushNull>>, <<>>)>>,
      <<Cond(op.MATCH_CHAR_CLASS, <<0>>, <<AcceptN>>, <<Fail>>),
        Cond(op.IF_ERROR, <<>>, <<Pop, PushNull>>, <<>>)>>}}
RuleChoices ==
  {[has |-> TRUE, bytecode |-> b, match |-> m] : b \in RuleBlocks, m \in {0, 1}}
  \cup {[has |-> FALSE, bytecode |-> <<>>, match |-> m] : m \in {0, 1}}
NRules == 2

BytecodeInit ==
  /\ pc = "optimizeBytecode"
  /\ rules \in [1..NRules -> RuleChoices]
  /\ output \in Outputs
  /\ prev = rules
  /\ idx = 1
  /\ bytecode = <<>>
  /\ fbc = <<>>
  /\ changes = FALSE
  /\ out = <<>>
  /\ err = ""
  /\ nodead = FALSE
  /\ passes = 0
  /\ round = 1

\* output asks for a source map: return
ReturnForSourceMap ==
  /\ pc = "optimizeBytecode"
  /\ output \in SourceMapOutputs
  /\ pc' = "returned"
  /\ UNCHANGED <<bytecode, fbc, changes, out, err, nodead, passes, round, prev,
                 rules, output, idx>>

\* the forEach callback on a rule with bytecode
OptimizeRule ==
  /\ pc \in {"optimizeBytecode", "forEach"}
  /\ output \notin SourceMapOutputs
  /\ idx <= Len(rules)
  /\ rules[idx].has
  /\ LET Optimized(r) ==
           IF r.err # ""
           THEN pc' = "thrown" /\ err' = r.err /\ UNCHANGED <<rules, idx>>
           ELSE /\ rules' = [rules EXCEPT ![idx].bytecode = r.bc]
                /\ idx' = idx + 1
                /\ pc' = "forEach"
                /\ err' = err
     IN Optimized(optimizeBlock(Matches(rules), rules[idx].bytecode, FALSE))
  /\ UNCHANGED <<bytecode, fbc, changes, out, nodead, passes, round, prev, output>>

\* the forEach callback on a rule without bytecode
SkipRule ==
  /\ pc \in {"optimizeBytecode", "forEach"}
  /\ output \notin SourceMapOutputs
  /\ idx <= Len(rules)
  /\ ~rules[idx].has
  /\ idx' = idx + 1
  /\ pc' = "forEach"
  /\ UNCHANGED <<bytecode, fbc, changes, out, err, nodead, passes, round, prev,
                 rules, output>>

\* forEach has visited every rule
ReturnAfterRules ==
  /\ pc \in {"optimizeBytecode", "forEach"}
  /\ output \notin SourceMapOutputs
  /\ idx > Len(rules)
  /\ pc' = "returned"
  /\ UNCHANGED <<bytecode, fbc, changes, out, err, nodead, passes, round, prev,
                 rules, output, idx>>

BytecodeNext == ReturnForSourceMap \/ OptimizeRule \/ SkipRule \/ ReturnAfterRules

SpecBytecode == BytecodeInit /\ [][BytecodeNext]_vars

\* C8: with a source-map output no rule is ever touched; with any other
\* output every rule visited so far that has bytecode holds optimizeBlock's
\* result for it, and every other rule is as it was.
SourceMapNoOp ==
  LET mapped == output \in {"source-and-map", "source-with-inline-map"} IN
  /\ mapped => rules = prev
  /\ ~mapped =>
       \A i \in 1..Len(rules) :
         rules[i] =
           IF i < idx /\ prev[i].has
           THEN [prev[i] EXCEPT
                   !.bytecode = optimizeBlock(Matches(prev), prev[i].bytecode, FALSE).bc]
           ELSE prev[i]
  /\ pc = "returned" => (mapped \/ idx = Len(rules) + 1)

\* the pass has returned with one rule rewritten and one rule without
\* bytecode left alone
RulesOptimizedWitness ==
  /\ pc = "returned"
  /\ output = "source"
  /\ \E i, j \in 1..Len(rules) :
       /\ prev[i].has /\ rules[i].bytecode # prev[i].bytecode
       /\ ~prev[j].has /\ rules[j] = prev[j]

(***************************************************************************)
(* A block with one WHILE_NOT_ERROR between a producer and a tail, run     *)
(* without visitors and handed to optimizeBlock                            *)
(***************************************************************************)
LoopBodies ==
  {<<Pop, PushNull>>, <<Pop, AcceptN>>, <<Pop, Rule(0)>>, <<Pop, Pop, Pop>>,
   <<Cond(op.IF_, <<>>, <<Pop, PushFailed>>, <<Pop, PushEmptyArray>>)>>}
LoopTails == {<<>>, <<Pop>>}
LoopTrees == {<<a, Loop(b)>> \o c : a \in Tested, b \in LoopBodies, c \in LoopTails}

LoopInit ==
  /\ pc = "tree"
  /\ fbc \in LoopTrees
  /\ bytecode = <<>>
  /\ changes = FALSE
  /\ out = <<>>
  /\ err = ""
  /\ nodead \in BOOLEAN
  /\ passes = 0
  /\ round = 1
  /\ prev = <<>>
  /\ rules = Grammar
  /\ output = "parser"
  /\ idx = 0

\* optimizeBlock(ast, flattenBc(tree), name, undefined, nodead)
OptimizeTree ==
  /\ pc = "interp"
  /\ LET Optimized(r) == out' = r.bc /\ err' = r.err
     IN Optimized(optimizeBlock(rules, bytecode, nodead))
  /\ pc' = "optimized"
  /\ UNCHANGED <<bytecode, fbc, changes, nodead, passes, round, prev, rules,
                 output, idx>>

LoopNext == Snapshot \/ PlainRun \/ OptimizeTree

SpecLoop == LoopInit /\ [][LoopNext]_vars

\* the state in which a visitor-less run reaches the second element
LoopEntry == plain(<<prev[1]>>).st

\* C11: when the top of the stack at a WHILE_NOT_ERROR must be FAILED, the
\* loop is removed without its body being interpreted and the state is the
\* one the loop was reached in: the run of the block gives the block without
\* the loop and the state the block without the loop gives.  optimizeBlock
\* of [PUSH_FAILED, WHILE_NOT_ERROR [POP, ACCEPT_N 1], POP] is [], and the
\* visitor-less run of [PUSH_FAILED, WHILE_NOT_ERROR [POP, PUSH_NULL]] is
\* [PUSH_FAILED].
DeadLoopRemoval ==
  LET rest == <<prev[1]>> \o SubSeq(prev, 3, Len(prev))
      step == interpLoop(prev, 2, LoopEntry)
  IN
  /\ (pc = "interpreted" /\ topValue(LoopEntry).type = TypeTag.FAILED) =>
       /\ step.st = LoopEntry
       /\ step.mods = SpliceMods(2, 1, <<>>)
       /\ changes
       /\ fbc = rest
       /\ plain(prev).st = plain(rest).st
  /\ (pc = "optimized"
      /\ bytecode = <<op.PUSH_FAILED, op.WHILE_NOT_ERROR, 3, op.POP,
                      op.ACCEPT_N, 1, op.POP>>) =>
       (out = <<>> /\ err = "")
  /\ (pc = "interpreted"
      /\ bytecode = <<op.PUSH_FAILED, op.WHILE_NOT_ERROR, 2, op.POP,
                      op.PUSH_NULL>>) =>
       (changes /\ out = <<op.PUSH_FAILED>>)

\* a loop whose body would take three values from a stack of one was
\* removed behind PUSH_FAILED, and no error was raised
DeadLoopWitness ==
  /\ pc = "interpreted" /\ err = "" /\ changes
  /\ bytecode = <<op.PUSH_FAILED, op.WHILE_NOT_ERROR, 3, op.POP, op.POP,
                  op.POP, op.POP>>
  /\ out = <<op.PUSH_FAILED, op.POP>>

(***************************************************************************)
(* Blocks of properly nested SILENT_FAILS_ON/OFF markers around RULE 1,    *)
(* handed to optimizeBlock                                                 *)
(***************************************************************************)
SilentOn == Flat(op.SILENT_FAILS_ON, <<>>)
SilentOff == Flat(op.SILENT_FAILS_OFF, <<>>)
\* the longest block of markers and rule calls
MaxSilentLen == 7

\* silentFails after the first n elements of a block
RECURSIVE SilentDepth(_, _)
SilentDepth(tree, n) ==
  IF n = 0 THEN 0
  ELSE SilentDepth(tree, n - 1)
       + (IF tree[n].op = op.SILENT_FAILS_ON THEN 1
          ELSE IF tree[n].op = op.SILENT_FAILS_OFF THEN -1 ELSE 0)

ProperlyNested(tree) ==
  /\ \A n \in 1..Len(tree) : SilentDepth(tree, n) >= 0
  /\ SilentDepth(tree, Len(tree)) = 0

SilentTrees ==
  {t \in UNION {[1..n -> {SilentOn, SilentOff, Rule(1)}] : n \in 1..MaxSilentLen} :
     ProperlyNested(t)}

SilentInit ==
  /\ pc = "tree"
  /\ fbc \in SilentTrees
  /\ bytecode = <<>>
  /\ changes = FALSE
  /\ out = <<>>
  /\ err = ""
  /\ nodead \in BOOLEAN
  /\ passes = 0
  /\ round = 1
  /\ prev = <<>>
  /\ rules = Grammar
  /\ output = "parser"
  /\ idx = 0

SilentNext == Snapshot \/ OptimizeTree

SpecSilent == SilentInit /\ [][SilentNext]_vars

\* the elements of a block at the positions in keep, in their order
RECURSIVE Kept(_, _, _)
Kept(tree, keep, n) ==
  IF n = 0 THEN <<>>
  ELSE Kept(tree, keep, n - 1) \o (IF n \in keep THEN <<tree[n]>> ELSE <<>>)

\* the positions of the markers that are nested in another pair
NestedMarkers(tree) ==
  {n \in 1..Len(tree) :
     \/ tree[n].op = op.SILENT_FAILS_ON /\ SilentDepth(tree, n - 1) >= 1
     \/ tree[n].op = op.SILENT_FAILS_OFF /\ SilentDepth(tree, n) >= 1}

\* the positions of the outermost pairs that enclose no RULE
EmptyPairs(tree) ==
  {n \in 1..Len(tree) :
     /\ tree[n].op \in {op.SILENT_FAILS_ON, op.SILENT_FAILS_OFF}
     /\ n \notin NestedMarkers(tree)
     /\ \E a, b \in 1..Len(tree) :
          /\ a <= n /\ n <= b
          /\ SilentDepth(tree, a - 1) = 0 /\ SilentDepth(tree, b) = 0
          /\ \A k \in a..b : /\ tree[k].op # op.RULE
                             /\ (k < b => SilentDepth(tree, k) >= 1)}

CountOp(bc, o) == Cardinality({n \in 1..Len(bc) : bc[n].op = o})

\* C12: for a properly nested block of markers and rule calls, optimizeBlock
\* deletes every SILENT_FAILS_ON reached with silentFails >= 1 and every
\* SILENT_FAILS_OFF that leaves silentFails >= 1, keeps every RULE and the
\* outermost pair around a RULE (an outermost pair around no RULE is
\* deleted by the dead-slot pass and kept without it), so that
\* [ON, ON, RULE 1, OFF, OFF] becomes [ON, RULE 1, OFF]; the output has as
\* many ON as OFF markers.
NestedSilentFailsFlatten ==
  pc = "optimized" =>
    LET gone == NestedMarkers(prev)
                \cup (IF nodead THEN {} ELSE EmptyPairs(prev))
        result == Tree(out)
    IN /\ err = ""
       /\ result = Kept(prev, (1..Len(prev)) \ gone, Len(prev))
       /\ CountOp(result, op.SILENT_FAILS_ON) = CountOp(result, op.SILENT_FAILS_OFF)
       /\ bytecode = <<op.SILENT_FAILS_ON, op.SILENT_FAILS_ON, op.RULE, 1,
                       op.SILENT_FAILS_OFF, op.SILENT_FAILS_OFF>>
          => out = <<op.SILENT_FAILS_ON, op.RULE, 1, op.SILENT_FAILS_OFF>>

\* [ON, ON, RULE 1, OFF, OFF] has become [ON, RULE 1, OFF]
NestedSilentFailsWitness ==
  /\ pc = "optimized" /\ err = ""
  /\ bytecode = <<op.SILENT_FAILS_ON, op.SILENT_FAILS_ON, op.RULE, 1,
                  op.SILENT_FAILS_OFF, op.SILENT_FAILS_OFF>>
  /\ out = <<op.SILENT_FAILS_ON, op.RULE, 1, op.SILENT_FAILS_OFF>>

(***************************************************************************)
(* interpLoop's fixpoint iteration, one turn of its for (;;) at a time.    *)
(* fbc is the loop body (slice), out is the interpreter state (this),      *)
(* prev is the saved state (state) and passes counts the turns; output is  *)
(* the state the iteration began in and bytecode the body as it was then.  *)
(***************************************************************************)
\* the number of values a tag can take (seven bits)
LatticeSize == 128
\* the turns after which the iteration is given up as not converging
MaxIterations == 600

FixOps ==
  {Pop, PushNull, PushFailed, PushEmptyArray, PushCurrPos, Rule(0), AcceptN,
   PopCurrPos, Flat(op.NIP, <<>>)}
FixArms ==
  {<<>>, <<Pop, PushNull>>, <<Pop, PushFailed>>, <<Pop, PushEmptyArray>>,
   <<Pop, AcceptN, PushCurrPos>>}
FixBodies ==
  UNION {[1..n -> FixOps] : n \in 1..3}
  \cup {<<Pop, Pop, a, b>> : a \in {PushEmptyArray, PushNull},
                            b \in {PushFailed, Rule(0)}}
  \cup {<<Pop, PushCurrPos, AcceptN, Pop>>, <<Pop, AcceptN, Pop, PushCurrPos>>,
        <<Pop, PushCurrPos, Rule(0), Pop>>, <<PopCurrPos, PushCurrPos, AcceptN, Pop>>}
  \cup {<<Cond(o, <<>>, t, e)>> :
          o \in {op.IF_, op.IF_ERROR, op.IF_NOT_ERROR}, t \in FixArms, e \in FixArms}
FixPrefixes ==
  {<<a>> : a \in Tested}
  \cup {<<a, b>> : a \in {PushNull, PushCurrPos, Rule(0)},
                   b \in {PushNull, PushEmptyArray, PushCurrPos, Rule(0)}}
\* the states interpLoop starts its iteration in: looping is incremented;
\* the visitors are installed or not
FixEntries ==
  {[plain(pre).st EXCEPT !.looping = @ + 1, !.vis = v] :
     pre \in FixPrefixes, v \in BOOLEAN}

FixInit ==
  /\ pc = "loop"
  /\ fbc \in FixBodies
  /\ out \in FixEntries
  /\ ~mustBe(topValue(out), TypeTag.FAILED)
  /\ Ok(run(fbc, out).st)
  /\ prev = out
  /\ bytecode = flattenBc(fbc).flat
  /\ changes = FALSE
  /\ err = ""
  /\ nodead = FALSE
  /\ passes = 0
  /\ round = 1
  /\ rules = Grammar
  /\ output = out
  /\ idx = 0

\* this.run(slice); this.merge(state); if (this.equal(state)) break;
\* state.copy(this)
LoopIterate ==
  /\ pc = "loop"
  /\ passes < MaxIterations
  /\ LET Merged(m) ==
           /\ out' = m
           /\ err' = m.err
           /\ pc' = IF ~Ok(m) THEN "thrown"
                    ELSE IF equal(m, prev) THEN "fixed" ELSE "loop"
           /\ prev' = IF Ok(m) /\ ~equal(m, prev) THEN m ELSE prev
         Ran(r) == fbc' = r.bc /\ Merged(merge(r.st, prev))
     IN Ran(run(fbc, out))
  /\ passes' = passes + 1
  /\ UNCHANGED <<bytecode, changes, nodead, round, rules, output, idx>>

\* this.looping--; bytecodeMods: this.run(slice).changes === true
LoopLastRun ==
  /\ pc = "fixed"
  /\ LET Last(last) == /\ out' = last.st
                       /\ err' = last.st.err
                       /\ changes' = last.changes
                       /\ fbc' = last.bc
     IN Last(run(fbc, [out EXCEPT !.looping = @ - 1]))
  /\ pc' = "done"
  /\ UNCHANGED <<bytecode, nodead, passes, round, prev, rules, output, idx>>

FixNext == LoopIterate \/ LoopLastRun

SpecFixpoint == FixInit /\ [][FixNext]_vars

\* the saved state has as many turns left as the bound allows
WithinIterationBound ==
  /\ passes <= LatticeSize * Len(prev.stack) + 1
  /\ pc = "loop" => passes < LatticeSize * Len(prev.stack) + 1

\* a turn that is not the last one replaces the saved state by one in which
\* no slot lost a tag bit or gained an identity, and some slot gained a tag
\* bit or lost its identity
StrictlyUp ==
  (pc = "loop" /\ pc' = "loop") =>
    /\ Len(prev'.stack) = Len(prev.stack)
    /\ \A i \in 1..Len(prev.stack) :
         /\ BitAnd(prev.stack[i].type, prev'.stack[i].type) = prev.stack[i].type
         /\ prev'.stack[i].value \in {0, prev.stack[i].value}
    /\ \E i \in 1..Len(prev.stack) :
         \/ prev'.stack[i].type # prev.stack[i].type
         \/ prev.stack[i].value # 0 /\ prev'.stack[i].value = 0

\* C13: interpLoop's iteration (run the body, merge the saved state, compare
\* with the saved state) stops within |lattice| x stackDepth + 1 turns, and
\* every turn but the last adds a tag bit to some slot of the saved state or
\* drops some slot's identity.
LoopFixpointTermination == [][StrictlyUp]_vars /\ []WithinIterationBound

\* a loop that needed three turns: the saved state changed twice
ThreeTurnsWitness == pc = "fixed" /\ passes = 3 /\ err = ""

(***************************************************************************)
(* InterpState's operations on their own: merge of two states that were    *)
(* cloned from one, and the interpretation of a single element.  prev is   *)
(* [this, from, bc]: the state operated on, the state merged into it and   *)
(* the element; out is the state the operation left.                       *)
(***************************************************************************)
StateMakers ==
  {PushNull, PushFailed, PushCurrPos, PushEmptyArray, PushEmptyString, Rule(0),
   AcceptN, SilentOn,
   Cond(op.MATCH_CHAR_CLASS, <<0>>, <<PushCurrPos>>, <<PushNull>>),
   Cond(op.MATCH_CHAR_CLASS, <<0>>, <<PushCurrPos>>, <<AcceptN, Pop, PushCurrPos>>),
   Cond(op.MATCH_CHAR_CLASS, <<0>>, <<PushEmptyArray>>, <<PushFailed>>)}
ShortPrefixes == {<<>>} \cup {<<a>> : a \in StateMakers}
StatePrefixes == ShortPrefixes \cup {<<a, b>> : a \in StateMakers, b \in StateMakers}
RuleNames == {"rule", "empty"}

\* two states cloned from the state a common block left, each after a block
\* of its own; the objects the second block makes are not those of the first
ClonedPair(common, mine, theirs) ==
  LET Second(s0, a) ==
        LET Both(b) == [this |-> [a EXCEPT !.nid = b.nid], from |-> b, bc |-> <<>>]
        IN Both(run(theirs, [s0 EXCEPT !.nid = a.nid]).st)
      First(s0) == Second(s0, run(mine, s0).st)
  IN First(plain(common).st)
ClonedPairs ==
  {ClonedPair(c, a, b) : c \in ShortPrefixes, a \in ShortPrefixes, b \in ShortPrefixes}

\* one element of every opcode without sub-blocks, and small conditionals
PluckArgs ==
  {<<3, 1, 2>>, <<3, 1, 0>>, <<-3, 1, 0>>, <<1, 1, 0>>, <<2, 1, 1>>, <<0, 1, 2>>,
   <<2, 2, 0, 1>>, <<1, 2, 1, 0>>, <<-1, 2, 0, 1>>, <<3, 2, 0, 2>>}
CallArgs == {<<0, 0, 0>>, <<0, 1, 1, 0>>, <<0, 2, 1, 0>>, <<0, 0, 1, 1>>, <<0, -1, 0>>}
FlatElements ==
  {Flat(o, <<>>) : o \in FormatLen1}
  \cup {Flat(o, <<n>>) : o \in {op.POP_N, op.WRAP}, n \in {-1, 0, 1, 2, 3, 5}}
  \cup {Flat(o, <<n>>) : o \in {op.ACCEPT_N, op.ACCEPT_STRING, op.FAIL,
                                op.LOAD_SAVED_POS, op.SOURCE_MAP_PUSH,
                                op.SOURCE_MAP_LABEL_POP}, n \in {0, 1}}
  \cup {Rule(0), Rule(1), Rule(2), Flat(op.SOURCE_MAP_LABEL_PUSH, <<0, 0, 0>>)}
  \cup {Flat(op.PLUCK, a) : a \in PluckArgs}
  \cup {Flat(op.CALL, a) : a \in CallArgs}
StateArms == {<<>>, <<AcceptN>>, <<Fail>>, <<Pop, Pop>>, <<Pop, PushNull>>}
CondElements ==
  {Cond(o, CondArgs(o), t, e) : o \in CondOps, t \in StateArms, e \in StateArms}

\* a state whose only slot holds a value of the given tag, for every tag
\* the seven bits can form
TaggedTop(tag) ==
  [InterpState(Grammar, FALSE) EXCEPT !.stack = <<[type |-> tag, value |-> 0]>>]

StateRest ==
  /\ fbc = prev.bc
  /\ out = prev.this
  /\ bytecode = <<>>
  /\ changes = FALSE
  /\ err = ""
  /\ nodead = FALSE
  /\ passes = 0
  /\ round = 1
  /\ rules = Grammar
  /\ output = "parser"
  /\ idx = 0

StateInit ==
  /\ \/ /\ pc = "merge"
        /\ prev \in ClonedPairs
     \/ /\ pc = "interp"
        /\ \E s \in {plain(p).st : p \in StatePrefixes}, n \in RuleNames,
              e \in FlatElements \cup CondElements :
             prev = [this |-> [s EXCEPT !.ruleName = n], from |-> s, bc |-> <<e>>]
  /\ StateRest

\* a conditional on the top of the stack over a top of every tag
MockedInit ==
  /\ pc = "interp"
  /\ \E tag \in 0..TypeTag.ANY, o \in {op.IF_, op.IF_ERROR, op.IF_NOT_ERROR} :
       prev = [this |-> TaggedTop(tag), from |-> TaggedTop(tag),
               bc |-> <<Cond(o, <<>>, <<AcceptN>>, <<Pop, PushNull>>)>>]
  /\ StateRest

\* this.merge(from)
Merge ==
  /\ pc = "merge"
  /\ LET Merged(m) == out' = m /\ err' = m.err
     IN Merged(merge(prev.this, prev.from))
  /\ pc' = "merged"
  /\ UNCHANGED <<bytecode, fbc, changes, nodead, passes, round, prev, rules,
                 output, idx>>

\* this.run([element]), as the tests of the error cases do
Interp ==
  /\ pc = "interp"
  /\ LET Ran(r) == /\ out' = r.st
                   /\ err' = r.st.err
                   /\ fbc' = r.bc
                   /\ changes' = r.changes
     IN Ran(run(fbc, prev.this))
  /\ pc' = "interpreted"
  /\ UNCHANGED <<bytecode, nodead, passes, round, prev, rules, output, idx>>

\* this.setCurrPos(value), value being the top of the other state
SetCurrPos ==
  /\ pc = "merge"
  /\ Len(prev.from.stack) > 0
  /\ LET Assigned(a) == out' = a /\ err' = a.err
     IN Assigned(setCurrPos(prev.this, topValue(prev.from)))
  /\ pc' = "assigned"
  /\ UNCHANGED <<bytecode, fbc, changes, nodead, passes, round, prev, rules,
                 output, idx>>

\* this.interp([element], 0) of an IF while mustBeTrue, mustBeFalse or both
\* are replaced by a function that returns true, as a test does with
\* jest.spyOn; output records which
InterpMocked ==
  /\ pc = "interp"
  /\ fbc[1].op = op.IF_
  /\ \E mt, mf \in BOOLEAN :
       /\ mt \/ mf
       /\ output' = [mustBeTrue |-> mt, mustBeFalse |-> mf]
       /\ LET Ran(r) == out' = r.st /\ err' = r.st.err /\ fbc' = r.bc
          IN Ran(interpConditionWith(
                   fbc, 1, prev.this, TRUE,
                   [check(op.IF_, topValue(prev.this), TRUE) EXCEPT !.only = @ \/ mt],
                   [check(op.IF_, topValue(prev.this), FALSE) EXCEPT !.only = @ \/ mf]))
  /\ pc' = "mocked"
  /\ UNCHANGED <<bytecode, changes, nodead, passes, round, prev, rules, idx>>

StateNext == Merge \/ SetCurrPos \/ Interp

SpecState == StateInit /\ [][StateNext]_vars

MockedNext == Interp \/ InterpMocked

SpecMocked == MockedInit /\ [][MockedNext]_vars

\* a tag with exactly one bit
OneKind(t) ==
  t \in {TypeTag.UNDEFINED, TypeTag.NULL, TypeTag.FAILED, TypeTag.OFFSET,
         TypeTag.ARRAY, TypeTag.STRING, 64}

\* C14: for two states with equal stack length and equal silentFails,
\* merging from into this and this into from give stacks that agree slot by
\* slot in tag and in identity; the tag of a merged slot is the bitwise or
\* of the two tags, and the slot keeps an identity only when both values
\* carry the same identity and the tag has a single bit.
MergeSymmetry ==
  (/\ pc = "merged"
   /\ Len(prev.this.stack) = Len(prev.from.stack)
   /\ prev.this.silentFails = prev.from.silentFails) =>
    LET a == prev.this.stack
        b == prev.from.stack
        back == merge(prev.from, prev.this)
    IN /\ err = "" /\ Ok(back)
       /\ Len(out.stack) = Len(a) /\ Len(back.stack) = Len(a)
       /\ \A i \in 1..Len(a) :
            /\ out.stack[i] = back.stack[i]
            /\ out.stack[i].type = BitOr(a[i].type, b[i].type)
            /\ out.stack[i].value =
                 IF a[i].value # 0 /\ a[i].value = b[i].value
                    /\ OneKind(out.stack[i].type)
                 THEN a[i].value ELSE 0

\* a merge that kept the identity of one slot and dropped that of another,
\* whose two values are different arrays
MergeSymmetryWitness ==
  /\ pc = "merged" /\ err = ""
  /\ \E i, j \in 1..Len(out.stack) :
       /\ out.stack[i].value # 0
       /\ out.stack[j].value = 0
       /\ prev.this.stack[j].value # 0 /\ prev.from.stack[j].value # 0
       /\ out.stack[j].type = TypeTag.ARRAY

\* C15: merging two states whose stacks differ in length raises the
\* "mis-matched stacks" error, also when their silentFails differ; with equal
\* lengths and different silentFails it raises the "mis-matched silentFails"
\* error; in both cases the stack, currPos and silentFails of the state
\* merged into are as they were.
MergeErrors ==
  pc = "merged" =>
    LET lengths == Len(prev.this.stack) # Len(prev.from.stack)
        silent == prev.this.silentFails # prev.from.silentFails
    IN /\ lengths =>
            err = "Error: Rule 'rule': Merging states with mis-matched stacks."
       /\ (~lengths /\ silent) =>
            err = "Error: Rule 'rule': Merging states with mis-matched silentFails."
       /\ (~lengths /\ ~silent) => err = ""
       /\ (lengths \/ silent) =>
            /\ out.stack = prev.this.stack
            /\ out.currPos = prev.this.currPos
            /\ out.silentFails = prev.this.silentFails

\* the stacks differ in length and the silentFails differ as well, and the
\* error is the one about the stacks
MergeErrorsWitness ==
  /\ pc = "merged"
  /\ Len(prev.this.stack) # Len(prev.from.stack)
  /\ prev.this.silentFails # prev.from.silentFails
  /\ err = "Error: Rule 'rule': Merging states with mis-matched stacks."

\* C16: POP, POP_N n and WRAP n on a stack with fewer than the needed
\* elements raise a RangeError that names the rule and reports the requested
\* and the available count; POP_CURR_POS on an empty stack raises the "pop
\* from an empty stack" error; IF on an empty stack, and APPEND once it has
\* popped the only element, raise the "top of an empty stack" error; PLUCK
\* checks the indices it inspects before its discard count, and a negative
\* discard count raises the "discard" error on a stack that is large enough.
StackUnderflowDetection ==
  pc = "interpreted" =>
    LET e == prev.bc[1]
        size == Len(prev.this.stack)
        RangeErr(msg) == "RangeError: Rule '" \o prev.this.ruleName \o "': " \o msg
        PopErr(n) == RangeErr("Trying to pop " \o ToString(n) \o " elements, but only "
                              \o ToString(size) \o " available.")
        ps == SubSeq(e.args, 3, Len(e.args))
        bad == {i \in 1..Len(ps) : ps[i] < 0 \/ ps[i] >= size}
        first == CHOOSE i \in bad : \A j \in bad : i <= j
    IN /\ (e.op = op.POP /\ size < 1) => err = PopErr(1)
       /\ (e.op \in {op.POP_N, op.WRAP} /\ size < e.args[1]) => err = PopErr(e.args[1])
       /\ (e.op = op.POP_CURR_POS /\ size = 0) =>
            err = RangeErr("Trying to pop from an empty stack.")
       /\ (e.op = op.IF_ /\ size = 0) =>
            err = RangeErr("Trying to access the top of an empty stack.")
       /\ (e.op = op.APPEND /\ size = 1) =>
            err = RangeErr("Trying to access the top of an empty stack.")
       /\ (e.op = op.APPEND /\ size = 0) =>
            err = RangeErr("Trying to pop from an empty stack.")
       /\ (e.op = op.PLUCK /\ bad # {}) =>
            err = RangeErr("Trying to inspect element " \o ToString(ps[first])
                           \o " in a stack of size " \o ToString(size) \o ".")
       /\ (e.op = op.PLUCK /\ bad = {} /\ size < e.args[1]) => err = PopErr(e.args[1])
       /\ (e.op = op.PLUCK /\ bad = {} /\ e.args[1] < 0) =>
            err = RangeErr("Trying to discard " \o ToString(e.args[1]) \o " elements.")
       /\ (e.op = op.PLUCK /\ bad = {} /\ e.args[1] >= 0 /\ size >= e.args[1]) =>
            err = ""

\* PLUCK -3, 1, 0 on a stack of two elements has raised the "discard" error
StackUnderflowWitness ==
  /\ pc = "interpreted"
  /\ prev.bc = <<Flat(op.PLUCK, <<-3, 1, 0>>)>>
  /\ Len(prev.this.stack) = 2
  /\ err = "RangeError: Rule 'empty': Trying to discard -3 elements."

\* C17: setCurrPos, and POP_CURR_POS with it, raise an error naming the rule
\* unless the value's tag is exactly OFFSET; APPEND raises one unless the
\* element below the popped top is exactly ARRAY; TEXT raises one unless the
\* popped top is exactly OFFSET.  A union tag that includes the required
\* kind (OFFSET|NULL, ANY) is rejected like any other.
OperandTypeChecks ==
  LET Err(msg) == "Error: Rule '" \o prev.this.ruleName \o "': " \o msg
      size == Len(prev.this.stack)
      stack == prev.this.stack
  IN
  /\ pc = "assigned" =>
       err = IF topValue(prev.from).type = TypeTag.OFFSET THEN ""
             ELSE Err("Invalid value assigned to currPos.")
  /\ (pc = "interpreted" /\ prev.bc[1].op = op.POP_CURR_POS /\ size >= 1) =>
       err = IF stack[size].type = TypeTag.OFFSET THEN ""
             ELSE Err("Invalid value assigned to currPos.")
  /\ (pc = "interpreted" /\ prev.bc[1].op = op.APPEND /\ size >= 2) =>
       err = IF stack[size - 1].type = TypeTag.ARRAY THEN ""
             ELSE Err("Attempting to append to a non-array.")
  /\ (pc = "interpreted" /\ prev.bc[1].op = op.TEXT /\ size >= 1) =>
       err = IF stack[size].type = TypeTag.OFFSET THEN ""
             ELSE Err("TEXT bytecode got an incorrect type: "
                      \o ToString(stack[size].type) \o ".")

\* POP_CURR_POS was refused a value that is an OFFSET or NULL
OperandTypeWitness ==
  /\ pc = "interpreted"
  /\ prev.bc[1].op = op.POP_CURR_POS
  /\ topValue(prev.this).type = BitOr(TypeTag.OFFSET, TypeTag.NULL)
  /\ err = "Error: Rule 'rule': Invalid value assigned to currPos."

\* C19: interpCondition raises the "cannot be both always true and always
\* false" error exactly when its check callback reports the then side and
\* the else side as the only one, and it does so before it runs a branch:
\* the state and the block are as they were.  The callbacks of IF, IF_ERROR
\* and IF_NOT_ERROR report both for no tag the top can carry, the empty tag
\* included, so the error needs mustBeTrue or mustBeFalse replaced.
ImpossibleConditional ==
  LET both == "Error: Rule '" \o prev.this.ruleName
              \o "': Conditional cannot be both always true and always false."
      t == topValue(prev.this)
  IN
  /\ (pc = "mocked" /\ Len(prev.this.stack) > 0) =>
       /\ (err = both) <=>
            /\ output.mustBeTrue \/ check(op.IF_, t, TRUE).only
            /\ output.mustBeFalse \/ check(op.IF_, t, FALSE).only
       /\ err = both =>
            /\ out.stack = prev.this.stack
            /\ out.currPos = prev.this.currPos
            /\ out.nid = prev.this.nid
            /\ fbc = prev.bc
  /\ pc = "interpreted" => err # both
  /\ (/\ pc = "interpreted" /\ Len(prev.this.stack) > 0
      /\ prev.bc[1].op \in {op.IF_, op.IF_ERROR, op.IF_NOT_ERROR}) =>
       ~ /\ check(prev.bc[1].op, t, TRUE).only
         /\ check(prev.bc[1].op, t, FALSE).only

\* with mustBeTrue and mustBeFalse both replaced, an IF over PUSH_NULL's
\* value has raised the error and neither branch has run
ImpossibleConditionalWitness ==
  /\ pc = "mocked"
  /\ output = [mustBeTrue |-> TRUE, mustBeFalse |-> TRUE]
  /\ prev.bc = <<Cond(op.IF_, <<>>, <<AcceptN>>, <<Pop, PushNull>>)>>
  /\ prev.this.stack = <<[type |-> TypeTag.NULL, value |-> 0]>>
  /\ err = "Error: Rule 'rule': Conditional cannot be both always true and always false."
  /\ out.currPos = prev.this.currPos

\* the identities of the objects a state refers to
Identities(st) ==
  {st.currPos.value} \cup {st.stack[i].value : i \in 1..Len(st.stack)}

\* C20: in every state currPos has the tag OFFSET and an identity; ACCEPT_N,
\* ACCEPT_STRING, RULE and CALL give currPos an identity no earlier object
\* has; FAIL and every other opcode without sub-blocks except POP_CURR_POS
\* leave currPos as it is; after a conditional both of whose branches were
\* interpreted and exactly one of which advanced currPos, the identity of
\* the merged currPos differs from the one before the conditional.
CurrPosTracking ==
  LET e == prev.bc[1]
      before == prev.this
      \* the conditional is not decided by the top of the stack
      undecided == \/ e.op = op.MATCH_CHAR_CLASS
                   \/ Len(before.stack) > 0 /\ topValue(before).type = TypeTag.ANY
      moved(arm) == \E i \in 1..Len(arm) :
                      arm[i].op \in {op.ACCEPT_N, op.ACCEPT_STRING, op.RULE, op.CALL}
  IN
  /\ out.currPos.type = TypeTag.OFFSET /\ out.currPos.value # 0
  /\ before.currPos.type = TypeTag.OFFSET /\ before.currPos.value # 0
  /\ (pc = "interpreted" /\ e.blocks = <<>>) =>
       IF e.op \in {op.ACCEPT_N, op.ACCEPT_STRING, op.RULE, op.CALL}
       THEN err = "" => /\ out.currPos.value \notin Identities(before)
                        /\ out.currPos.value >= before.nid
       ELSE e.op # op.POP_CURR_POS => out.currPos = before.currPos
  /\ (/\ pc = "interpreted" /\ e.blocks # <<>> /\ err = "" /\ undecided
      /\ moved(e.blocks[1]) # moved(e.blocks[2])) =>
       /\ out.currPos.value # before.currPos.value
       /\ out.currPos.value \notin Identities(before)

\* MATCH_CHAR_CLASS [ACCEPT_N 1] [FAIL 0] was interpreted behind a saved
\* position, and currPos is no longer the object that was saved
CurrPosTrackingWitness ==
  /\ pc = "interpreted" /\ err = ""
  /\ prev.bc = <<Cond(op.MATCH_CHAR_CLASS, <<0>>, <<AcceptN>>, <<Fail>>)>>
  /\ Len(prev.this.stack) = 1
  /\ prev.this.stack[1] = prev.this.currPos
  /\ out.stack[1] = prev.this.currPos
  /\ out.currPos.value # prev.this.currPos.value

(***************************************************************************)
(* flattenBc over trees of any shape.  An element is the sequence of its   *)
(* entries as the JS array holds them; an entry is a number or an array    *)
(* (a block, itself a sequence of elements).                               *)
(***************************************************************************)
Num(n) == [isArray |-> FALSE, n |-> n, b |-> <<>>]
Arr(b) == [isArray |-> TRUE, n |-> 0, b |-> b]

RECURSIVE flattenBcEntries(_)
RECURSIVE FlattenBodies(_, _, _)
RECURSIVE FlattenEntry(_, _, _)
RECURSIVE FlattenElements(_, _, _)

\* e.slice(i).map(b => ... flattenBc(b)): acc holds the bodies flattened so far
FlattenBodies(e, k, acc) ==
  IF k > Len(e) THEN [err |-> "", bodies |-> acc]
  ELSE IF ~e[k].isArray
  THEN [err |-> "Incorrect formatted bytecode. Expected an Array", bodies |-> acc]
  ELSE LET Flattened(f) ==
             IF f.err # "" THEN [err |-> f.err, bodies |-> acc]
             ELSE FlattenBodies(e, k + 1, Append(acc, f.flat))
       IN Flattened(flattenBcEntries(e[k].b))

\* bodies.forEach(b => result.push(b.length)); bodies.forEach(b => result.push(...b))
BodyLengths(bodies) == [k \in 1..Len(bodies) |-> Len(bodies[k])]
RECURSIVE BodyContents(_, _)
BodyContents(bodies, k) ==
  IF k > Len(bodies) THEN <<>> ELSE bodies[k] \o BodyContents(bodies, k + 1)

\* the for loop over the entries of one element, from entry i on
FlattenEntry(e, i, result) ==
  IF i > Len(e) THEN [err |-> "", flat |-> result]
  ELSE IF ~e[i].isArray THEN FlattenEntry(e, i + 1, Append(result, e[i].n))
  ELSE
    LET Checked(bs) ==
          IF bs.err # "" THEN [err |-> bs.err, flat |-> result]
          ELSE IF Len(bs.bodies) = 1 /\ e[1].n # op.WHILE_NOT_ERROR
          THEN [err |-> "Incorrect formatted bytecode. Expected '"
                        \o ToString(op.WHILE_NOT_ERROR) \o "', but got "
                        \o ToString(e[1].n),
                flat |-> result]
          ELSE IF Len(bs.bodies) # 1 /\ getConditionalArgCount(e[1].n) = -1
          THEN [err |-> "Expected a conditional bytecode, but got: "
                        \o ToString(e[1].n) \o ".",
                flat |-> result]
          ELSE IF Len(bs.bodies) # 1 /\ i - 1 # getConditionalArgCount(e[1].n) + 1
          THEN [err |-> "Incorrect formatted bytecode. Expected "
                        \o ToString(getConditionalArgCount(e[1].n))
                        \o " arguments for " \o ToString(e[1].n)
                        \o ", but got " \o ToString(i - 2),
                flat |-> result]
          ELSE IF Len(bs.bodies) # 1 /\ Len(bs.bodies) # 2
          THEN [err |-> "Incorrect formatted bytecode. Expected 2 bodies for "
                        \o ToString(e[1].n) \o ", but got "
                        \o ToString(Len(bs.bodies)),
                flat |-> result]
          ELSE [err |-> "",
                flat |-> result \o BodyLengths(bs.bodies)
                                \o BodyContents(bs.bodies, 1)]
    IN Checked(FlattenBodies(e, i, <<>>))

\* fbc.forEach(e => ...)
FlattenElements(tree, k, result) ==
  IF k > Len(tree) THEN [err |-> "", flat |-> result]
  ELSE LET Flattened(f) == IF f.err # "" THEN f
                           ELSE FlattenElements(tree, k + 1, f.flat)
       IN Flattened(FlattenEntry(tree[k], 1, result))

\* flattenBc(fbc): [err, flat]
flattenBcEntries(tree) == FlattenElements(tree, 1, <<>>)

\* elements of up to four entries behind the opcode
EntryOpcodes ==
  {op.IF_, op.MATCH_STRING, op.WHILE_NOT_ERROR, op.PUSH_NULL, op.POP_N}
EntryBodies == {<<>>, <<(<<Num(op.POP)>>)>>, <<(<<Num(op.IF_), Arr(<<>>)>>)>>}
Entries == {Num(1)} \cup {Arr(b) : b \in EntryBodies}
EntryElements ==
  {<<Num(o)>> \o rest :
     o \in EntryOpcodes, rest \in UNION {[1..n -> Entries] : n \in 0..4}}

FlattenInit ==
  /\ pc = "tree"
  /\ fbc \in {<<e>> : e \in EntryElements}
              \cup {<<(<<Num(op.PUSH_NULL)>>), e>> : e \in EntryElements}
  /\ bytecode = <<>>
  /\ changes = FALSE
  /\ out = <<>>
  /\ err = ""
  /\ nodead = FALSE
  /\ passes = 0
  /\ round = 1
  /\ prev = <<>>
  /\ rules = Grammar
  /\ output = "parser"
  /\ idx = 0

\* InterpState.flattenBc(fbc)
FlattenEntries ==
  /\ pc = "tree"
  /\ LET Flattened(f) == out' = f.flat /\ err' = f.err
     IN Flattened(flattenBcEntries(fbc))
  /\ pc' = "flattened"
  /\ UNCHANGED <<bytecode, fbc, changes, nodead, passes, round, prev, rules,
                 output, idx>>

FlattenNext == FlattenEntries

SpecFlatten == FlattenInit /\ [][FlattenNext]_vars

\* the shape of the last element of the tree: where its first block is (0
\* when it has none), and how many entries follow from there
LastElement == fbc[Len(fbc)]
FirstBlock ==
  IF \E i \in 1..Len(LastElement) : LastElement[i].isArray
  THEN CHOOSE i \in 1..Len(LastElement) :
         /\ LastElement[i].isArray
         /\ \A j \in 1..(i - 1) : ~LastElement[j].isArray
  ELSE 0
BlockEntries == IF FirstBlock = 0 THEN 0 ELSE Len(LastElement) - FirstBlock + 1
IsConditionalOpcode == LastElement[1].n \in Cond0Opcodes \cup Cond1Opcodes

\* a non-array entry after the first block
StrayEntry ==
  /\ FirstBlock # 0
  /\ \E j \in FirstBlock..Len(LastElement) : ~LastElement[j].isArray
\* a single block on an opcode other than WHILE_NOT_ERROR
LoneBlock ==
  ~StrayEntry /\ BlockEntries = 1 /\ LastElement[1].n # op.WHILE_NOT_ERROR
\* a conditional with blocks behind the wrong number of arguments
WrongArguments ==
  /\ IsConditionalOpcode /\ FirstBlock # 0
  /\ FirstBlock - 2 # getConditionalArgCount(LastElement[1].n)
\* a conditional with blocks, but not two of them
WrongBodies == IsConditionalOpcode /\ FirstBlock # 0 /\ BlockEntries # 2
\* a conditional or a loop without any block
NoBlock ==
  /\ FirstBlock = 0
  /\ IsConditionalOpcode \/ LastElement[1].n = op.WHILE_NOT_ERROR

\* C18: flattenBc raises an error for every element that violates the tree
\* shape: a non-array entry after the first block, a single block on an
\* opcode other than WHILE_NOT_ERROR, a conditional whose number of leading
\* arguments differs from getConditionalArgCount(op), a conditional with a
\* number of blocks other than 2, and a conditional or loop element that
\* has no block at all.
FlattenValidation ==
  (pc = "flattened"
   /\ (StrayEntry \/ LoneBlock \/ WrongArguments \/ WrongBodies \/ NoBlock))
    => err # ""

\* what flattenBc does of the above: every violation in an element that has
\* a block raises an error, and a conditional or a loop without a block is
\* flattened to its opcode and arguments
FlattenValidationOfBlocks ==
  pc = "flattened" =>
    /\ (StrayEntry \/ LoneBlock \/ WrongArguments \/ WrongBodies) => err # ""
    /\ StrayEntry =>
         err \in {"Incorrect formatted bytecode. Expected an Array",
                  "Incorrect formatted bytecode. Expected '16', but got 13"}
    /\ (NoBlock /\ Len(fbc) = 1) =>
         /\ err = ""
         /\ out = [i \in 1..Len(LastElement) |-> LastElement[i].n]

\* [IF] was flattened to the stream [13] without an error
NoBlockAccepted ==
  /\ pc = "flattened"
  /\ fbc = <<(<<Num(op.IF_)>>)>>
  /\ err = "" /\ out = <<op.IF_>>

(***************************************************************************)
(* run() with the visitors installed, one turn of its while loop at a time *)
(*                                                                         *)
(* prev is the block as it was handed to run, fbc the block as the turns   *)
(* left it, idx the ip of the next turn, out the interpreter's state,      *)
(* changes run's local of that name; output tells whether the last turn    *)
(* modified the block and passes counts the turns.                         *)
(***************************************************************************)
\* a push or a FAIL and the element that discards its value, behind up to
\* two values and inside or outside of a SILENT_FAILS_ON / OFF pair
Pushers == ConstantPushes \cup {Fail, Flat(op.FAIL, <<1>>)}
Discarders == {Pop, PopN(0), PopN(1), PopN(2), PopN(3)}
Discards ==
  {s \o <<p, d>> \o e :
     s \in {<<>>, <<PushNull>>, <<PushNull, PushCurrPos>>},
     p \in Pushers, d \in Discarders, e \in {<<>>, <<PushNull>>}}
DiscardTrees ==
  Discards \cup {<<SilentOn>> \o t \o <<SilentOff>> : t \in Discards}
                \cup {<<SilentOn, p, SilentOff>> : p \in Pushers}

TurnTrees ==
  {t \in PushPops \cup Positions \cup Guarded \cup Chained \cup Mixed
          \cup DiscardTrees :
     Ok(plain(t).st)}

\* run is called on one of trees by a state with the visitors installed
TurnInitOn(trees) ==
  /\ pc = "turn"
  /\ prev \in trees
  /\ fbc = prev
  /\ idx = 1
  /\ out = InterpState(Grammar, TRUE)
  /\ changes = FALSE
  /\ output = FALSE
  /\ passes = 0
  /\ bytecode = <<>>
  /\ err = ""
  /\ nodead = FALSE
  /\ round = 1
  /\ rules = Grammar

TurnInit == TurnInitOn(TurnTrees)

\* one turn of while (ip < bc.length)
RunTurn ==
  /\ pc = "turn"
  /\ idx <= Len(fbc)
  /\ err = ""
  /\ LET Turned(a) ==
           /\ fbc' = a.r.bc
           /\ idx' = a.r.ip
           /\ out' = a.r.st
           /\ err' = a.r.st.err
           /\ output' = a.changes
           /\ changes' = (changes \/ a.changes)
     IN Turned(runTurn(fbc, idx, out, FALSE))
  /\ passes' = passes + 1
  /\ UNCHANGED <<pc, bytecode, nodead, round, prev, rules>>

\* the loop is left and run returns
RunReturn ==
  /\ pc = "turn"
  /\ idx > Len(fbc) \/ err # ""
  /\ pc' = "ran"
  /\ bytecode' = flattenBc(fbc).flat
  /\ UNCHANGED <<fbc, changes, out, err, nodead, passes, round, prev, rules,
                 output, idx>>

TurnNext == RunTurn \/ RunReturn

SpecTurn == TurnInit /\ [][TurnNext]_vars

\* the slots of the stack that hold the object currPos holds
SharesCurrPos(st) ==
  {i \in 1..Len(st.stack) : st.stack[i].value = st.currPos.value}

\* C21: after a turn of run that modified the block (looping is 0 and the
\* visitors are installed), the interpreter's state at the returned ip has
\* the stack depth, the silentFails count and the set of slots sharing
\* currPos's identity of the state a visitor-less interpreter reaches by
\* running the modified block from its start up to that ip.
RewritesKeepInStep ==
  (pc = "turn" /\ output /\ err = "") =>
    LET InStep(p) ==
          /\ Ok(p)
          /\ Len(p.stack) = Len(out.stack)
          /\ p.silentFails = out.silentFails
          /\ SharesCurrPos(p) = SharesCurrPos(out)
    IN InStep(plain(SubSeq(fbc, 1, idx - 1)).st)

\* the interpretation of the element at idx, with its modification applied,
\* as run hands it to postInterp; there is none when preInterp took the turn
Interpreted == applyMods(interp(fbc, idx, out), FALSE).r
ReachesPostInterp ==
  /\ pc = "turn" /\ idx <= Len(fbc) /\ err = ""
  /\ ~preInterp(fbc, idx, out).hit
  /\ Ok(Interpreted.st)
  /\ Exists(Elem(Interpreted.bc, idx))

\* postInterp finds a push, or a FAIL under silentFails, at ip
AtDeadPush(r) ==
  \/ r.bc[idx].op \in DeadPushOpcodes
  \/ r.bc[idx].op = op.FAIL /\ r.st.silentFails # 0
\* and the element at the result's ip discards n values
Discarding(r, n) ==
  /\ r.ip <= Len(r.bc)
  /\ \/ r.bc[r.ip].op = op.POP /\ n = 1
     \/ r.bc[r.ip].op = op.POP_N /\ Arg(r.bc[r.ip], 1) = n

\* what is left of a POP or POP_N that discards n values when it discards
\* one less
Lowered(n) ==
  IF n = 1 THEN <<>> ELSE IF n = 2 THEN <<Pop>> ELSE <<PopN(n - 1)>>

\* the block without the element at idx, and with the element at the
\* result's ip discarding one value less
OnePushOnePop(r, n) ==
  SubSeq(r.bc, 1, idx - 1) \o SubSeq(r.bc, idx + 1, r.ip - 1) \o Lowered(n)
    \o SubSeq(r.bc, r.ip + 1, Len(r.bc))

DeadPushStep(r) ==
  AtDeadPush(r) =>
    /\ \A n \in 1..3 : Discarding(r, n) => fbc' = OnePushOnePop(r, n)
    /\ Discarding(r, 0) =>
         fbc' = IF r.bc[idx].op = op.FAIL
                THEN [r.bc EXCEPT ![idx] = PushFailed] ELSE r.bc

\* the turn of a POP_N 0 removes that element and nothing else
PopNZeroStep(r) ==
  (r.bc[idx].op = op.POP_N /\ Arg(r.bc[idx], 1) = 0) =>
    fbc' = SubSeq(r.bc, 1, idx - 1) \o SubSeq(r.bc, idx + 1, Len(r.bc))

\* C22: when postInterp finds a push (or a FAIL under silentFails) at ip and
\* a POP or a POP_N n with n > 0 at the result's ip, the turn removes the
\* element at ip and removes the POP / POP_N 1 or lowers the POP_N by one
\* (POP_N 2 becomes POP), and every other element stays, also when the
\* element at ip was spliced in by the collapse of a decided conditional in
\* the same turn; before a POP_N 0 the push is kept, and the turn of the
\* POP_N 0 removes the POP_N 0 alone.
DeadPushDeletesOnePair ==
  [][ReachesPostInterp => (DeadPushStep(Interpreted) /\ PopNZeroStep(Interpreted))]_vars

\* the same for the turns in which interp left the block as it was, so that
\* the element postInterp finds at ip is the one the turn began with
DeadPushOfOwnElement ==
  [][(ReachesPostInterp /\ Interpreted.bc = fbc)
       => (DeadPushStep(Interpreted) /\ PopNZeroStep(Interpreted))]_vars

\* a turn has collapsed a decided conditional to a branch of two elements
\* that starts with a push, and with the POP behind the conditional both
\* elements of the branch are gone
SplicedBranchDeleted ==
  /\ pc = "turn" /\ err = "" /\ output
  /\ prev = <<PushNull, Cond(op.IF_, <<>>, <<>>, <<PushNull, PushNull>>), Pop>>
  /\ fbc = <<PushNull>>
  /\ Len(out.stack) = 2

(***************************************************************************)
(* Rewrites and the loop's iteration                                       *)
(***************************************************************************)
\* the top of the stack leaves the conditional e undecided
Undecided(e, t) ==
  ~check(e.op, t, TRUE).only /\ ~check(e.op, t, FALSE).only

\* a turn of the iteration leaves the body and changes as they are, and
\* leaves the state a run without visitors leaves
IterationIsIdle ==
  pc = "loop" =>
    /\ fbc' = fbc
    /\ changes' = changes
    /\ LET Same(a, b) == a.bc = b.bc /\ a.st = [b.st EXCEPT !.vis = out.vis]
                         /\ ~a.changes
       IN Same(run(fbc, out), run(fbc, [out EXCEPT !.vis = FALSE]))

\* the body is one IF, IF_ERROR or IF_NOT_ERROR
TestsTop(body) ==
  Len(body) = 1 /\ body[1].op \in {op.IF_, op.IF_ERROR, op.IF_NOT_ERROR}

\* after the run that follows the iteration, a conditional that the state
\* on entry decides and the converged state leaves undecided is still there
UndecidedAtFixpointKept ==
  (/\ pc = "done" /\ err = ""
   /\ TestsTop(Tree(bytecode))
   /\ ~Undecided(Tree(bytecode)[1], topValue(output))
   /\ Undecided(Tree(bytecode)[1], topValue(prev))) =>
    /\ Len(fbc) = 1
    /\ fbc[1].op = Tree(bytecode)[1].op
    /\ Len(fbc[1].blocks) = 2

ConvergenceBody ==
  <<Cond(op.IF_, <<>>, <<Pop, PushFailed>>, <<Pop, PushEmptyArray>>)>>

\* the loop of [PUSH_NULL, WHILE_NOT_ERROR [IF [POP, PUSH_FAILED]
\* [POP, PUSH_EMPTY_ARRAY]]] in a state without visitors
ConvergenceTest ==
  /\ Tree(bytecode) = ConvergenceBody
  /\ output.stack = <<[type |-> TypeTag.NULL, value |-> 0]>>
  /\ ~output.vis

\* C23: while looping > 0 a run changes neither the block nor changes and
\* no visitor acts; the elements of a WHILE_NOT_ERROR body are rewritten
\* only by the one run that follows the iteration, which starts from the
\* converged state, so that a conditional decided in the first turn and
\* undecided in the converged state stays; the loop of [PUSH_NULL,
\* WHILE_NOT_ERROR [IF [POP, PUSH_FAILED] [POP, PUSH_EMPTY_ARRAY]]] reports
\* no change.
RewritesWaitForConvergence ==
  /\ [][IterationIsIdle]_vars
  /\ [](pc # "done" => (fbc = Tree(bytecode) /\ ~changes))
  /\ []UndecidedAtFixpointKept
  /\ []((pc = "done" /\ ConvergenceTest) => (err = "" /\ ~changes /\ fbc = ConvergenceBody))

\* the loop of the test is done: its IF was decided by the NULL it was
\* entered with, the iteration took more than one turn and the body is as
\* it was
ConvergenceWitness ==
  /\ pc = "done" /\ err = ""
  /\ ConvergenceTest
  /\ check(op.IF_, topValue(output), FALSE).only
  /\ Undecided(ConvergenceBody[1], topValue(prev))
  /\ passes > 1
  /\ ~changes
  /\ fbc = ConvergenceBody

(***************************************************************************)
(* The state interpLoop returns with                                       *)
(***************************************************************************)
\* the loop was entered with a top that could be FAILED, so its body may
\* never run, and interpLoop has returned
ReturnedFromSkippableLoop ==
  /\ pc = "done" /\ err = ""
  /\ couldBe(topValue(output), TypeTag.FAILED)

\* the tag a holds every bit of the tag b
Includes(a, b) == BitAnd(a.type, b.type) = b.type

\* C24: when interpLoop returns for a loop whose body may never run, the
\* stack is as deep as on entry and every slot's tag includes the tag the
\* slot had on entry.
LoopExitIsJoin ==
  ReturnedFromSkippableLoop =>
    /\ Len(out.stack) = Len(output.stack)
    /\ \A i \in 1..Len(out.stack) : Includes(out.stack[i], output.stack[i])

\* the same for the slots below the top alone, the top being FAILED
\* whenever the loop is left
LoopExitIsJoinBelowTop ==
  ReturnedFromSkippableLoop =>
    /\ Len(out.stack) = Len(output.stack)
    /\ \A i \in 1..(Len(out.stack) - 1) : Includes(out.stack[i], output.stack[i])

\* entered with [NULL, any], the loop over [POP, POP, PUSH_EMPTY_ARRAY,
\* PUSH_FAILED] is left with [ARRAY, FAILED]: the NULL of the exit without a
\* turn is gone
EntryTagLost ==
  /\ ReturnedFromSkippableLoop
  /\ Tree(bytecode) = <<Pop, Pop, PushEmptyArray, PushFailed>>
  /\ Len(output.stack) = 2
  /\ output.stack[1].type = TypeTag.NULL
  /\ out.stack[1].type = TypeTag.ARRAY
  /\ out.stack[2].type = TypeTag.FAILED

(***************************************************************************)
(* The state the iteration stops in                                        *)
(***************************************************************************)
\* the state after one more run of the body from the state the iteration
\* stopped in, merged with that state
OnceMore == merge(run(fbc, out).st, out)

\* C25: when interpLoop's iteration stops, one more run of the body from
\* the state it stopped in, merged with that state, gives a stack in which
\* every slot has the tag and the identity it has in that state.
LoopHeadIsFixpoint ==
  (pc = "fixed" /\ err = "") => (Ok(OnceMore) /\ equal(OnceMore, out))

\* the same for the tags alone
LoopHeadTagsAreFixpoint ==
  (pc = "fixed" /\ err = "") =>
    /\ Ok(OnceMore)
    /\ Len(OnceMore.stack) = Len(out.stack)
    /\ \A i \in 1..Len(out.stack) : OnceMore.stack[i].type = out.stack[i].type

\* entered with the saved position on top, the iteration over [POP,
\* PUSH_CURR_POS, ACCEPT_N 1, POP] has stopped after one turn with the top
\* still holding the identity of the position on entry, which the position
\* of the state no longer is; a second turn would take that identity away
StaleIdentityAtLoopHead ==
  /\ pc = "fixed" /\ err = "" /\ passes = 1
  /\ Tree(bytecode) = <<Pop, PushCurrPos, AcceptN, Pop>>
  /\ Len(out.stack) = 1
  /\ out.stack[1].value = output.currPos.value
  /\ out.currPos.value # output.currPos.value
  /\ Ok(OnceMore) /\ OnceMore.stack[1].value = 0

(***************************************************************************)
(* A conditional followed by IF, IF_ERROR, IF_NOT_ERROR or WHILE_NOT_ERROR *)
(***************************************************************************)
\* the single element a terminal branch of the first conditional holds
FuseProducers == {PushNull, PushFailed, PushEmptyArray, PushCurrPos, Rule(0)}
Match(t, e) == Cond(op.MATCH_CHAR_CLASS, <<0>>, t, e)
\* conditionals with two, three and four terminal branches
FuseFirsts ==
  {Match(<<a>>, <<b>>) : a \in FuseProducers \cup {Flat(op.CALL, <<0, 0, 0>>)},
                         b \in FuseProducers}
  \cup {Match(<<Match(<<a>>, <<b>>)>>, <<c>>) :
          a \in FuseProducers, b \in FuseProducers, c \in FuseProducers}
  \cup {Match(<<a>>, <<Match(<<b>>, <<c>>)>>) :
          a \in FuseProducers, b \in FuseProducers, c \in FuseProducers}
  \cup {Match(<<Match(<<a>>, <<b>>)>>, <<Match(<<c>>, <<d>>)>>) :
          a \in FuseProducers, b \in FuseProducers, c \in FuseProducers,
          d \in FuseProducers}
\* the branches of the conditional that follows: two cheap ones and two
\* that are not
FuseArms == {<<>>, <<Pop, PushNull>>, <<AcceptN, Pop>>, <<Fail, Pop>>}
FuseNexts ==
  {Cond(o, <<>>, t, e) : o \in {op.IF_, op.IF_ERROR, op.IF_NOT_ERROR},
                         t \in FuseArms, e \in FuseArms}
  \cup {Loop(<<Pop, Rule(0)>>), Loop(<<Pop, PushFailed>>)}
FuseTrees == {<<a, b>> : a \in FuseFirsts, b \in FuseNexts}

FuseInit == TurnInitOn(FuseTrees)

SpecFuse == FuseInit /\ [][TurnNext]_vars

\* the terminal branches of a conditional, then side first
RECURSIVE Terminals(_)
Terminals(e) ==
  LET Side(b) == IF Len(b) > 0 /\ IsConditional(b[Len(b)])
                 THEN Terminals(b[Len(b)]) ELSE <<b>>
  IN Side(e.blocks[1]) \o Side(e.blocks[2])

\* the tag on top of the stack at the end of a terminal branch of the
\* first conditional, which is entered with an empty stack
TerminalTop(b) == topValue(plain(b).st).type

\* which side of the following element a tag selects: "then", "else" or
\* "both"
Side(o, tag) ==
  LET within(types) == tag # 0 /\ BitAnd(tag, types) = tag
      notFailed == BitAnd(tag, TypeTag.FAILED) = 0
      failed == tag = TypeTag.FAILED
  IN IF o = op.IF_
     THEN IF within(BitOr(TypeTag.ARRAY, TypeTag.FAILED)) THEN "then"
          ELSE IF within(BitOr(TypeTag.NULL, TypeTag.UNDEFINED)) THEN "else"
          ELSE "both"
     ELSE IF o = op.IF_ERROR
     THEN IF failed THEN "then" ELSE IF notFailed THEN "else" ELSE "both"
     ELSE IF notFailed THEN "then" ELSE IF failed THEN "else" ELSE "both"

\* the number of terminal branches of the first conditional that select
\* the given side of the element that follows it
Selecting(side) ==
  Cardinality({i \in 1..Len(Terminals(prev[1])) :
                 Side(prev[2].op, TerminalTop(Terminals(prev[1])[i])) = side})

\* the terminals that would receive a block that is not cheap
NonCheap(side) ==
  IF cheapBlock(NextCode(prev[2])[IF side = "then" THEN 1 ELSE 2])
  THEN 0 ELSE Selecting(side)

FusionAllowed ==
  /\ Selecting("both") <= 1
  /\ Selecting("both") = 1 => (NonCheap("then") = 0 /\ NonCheap("else") = 0)
  /\ Selecting("both") = 0 => (NonCheap("then") <= 1 /\ NonCheap("else") <= 1)

\* the turn of the first conditional is over
FirstTurned == pc = "turn" /\ passes = 1 /\ err = ""
\* and has taken the element that followed it into the conditional
Fused == FirstTurned /\ Len(fbc) = 1

\* C26: the turn of a conditional removes the IF, IF_ERROR, IF_NOT_ERROR or
\* WHILE_NOT_ERROR that follows it only if at most one terminal branch
\* leaves it undecided, no decided terminal receives a block that is not
\* cheap when one is undecided, and at most one terminal receives a then
\* block that is not cheap and at most one an else block that is not cheap
\* when none is undecided; otherwise the turn leaves the block as it was.
\* MATCH_CHAR_CLASS [CALL] [PUSH_CURR_POS] followed by IF [ACCEPT_N 1, POP]
\* [] is unchanged when run returns.
FusionGuard ==
  /\ Fused => FusionAllowed
  /\ (FirstTurned /\ ~FusionAllowed) => (fbc = prev /\ ~changes)
  /\ (/\ pc = "ran"
      /\ prev = <<Match(<<Flat(op.CALL, <<0, 0, 0>>)>>, <<PushCurrPos>>),
                  Cond(op.IF_, <<>>, <<AcceptN, Pop>>, <<>>)>>) =>
       (err = "" /\ fbc = prev /\ ~changes)

\* fusion has fired with one undecided terminal among four, and has not
\* fired for the block of the test
FusionGuardWitness ==
  /\ Fused
  /\ Len(Terminals(prev[1])) = 4
  /\ Selecting("both") = 1
  /\ Selecting("then") > 0 /\ Selecting("else") > 0
  /\ prev[2].op = op.IF_

\* the code a terminal branch b of the first conditional is to receive: the
\* then code, the else code or the whole element that follows, as the run
\* that the branch's end state makes of it leaves that code
Received(b) ==
  LET Run(st, side) ==
        run(IF side = "both" THEN <<prev[2]>>
            ELSE NextCode(prev[2])[IF side = "then" THEN 1 ELSE 2], st).bc
      End(st) == Run(st, Side(prev[2].op, topValue(st).type))
  IN End(run(b, InterpState(Grammar, TRUE)).st)

\* the first conditional with every terminal branch extended by what it is
\* to receive
RECURSIVE Extended(_)
Extended(e) ==
  LET Branch(b) == IF Len(b) > 0 /\ IsConditional(b[Len(b)])
                   THEN [b EXCEPT ![Len(b)] = Extended(b[Len(b)])]
                   ELSE b \o Received(b)
  IN [e EXCEPT !.blocks = <<Branch(e.blocks[1]), Branch(e.blocks[2])>>]

\* C27: when the turn of a conditional takes in the IF, IF_ERROR,
\* IF_NOT_ERROR or WHILE_NOT_ERROR that follows it, that element is gone
\* and every terminal branch of the conditional has received the code its
\* top selects: for IF the then code on a top that must be true and the
\* else code on one that must be false, for IF_NOT_ERROR the then code on a
\* top that cannot be FAILED and the else code on one that must be FAILED,
\* for IF_ERROR the reverse, the whole following element on an undecided
\* top; a WHILE_NOT_ERROR goes to the terminals whose top cannot be FAILED
\* and is dropped for those whose top must be FAILED.
FusionResult ==
  Fused => (changes /\ fbc = <<Extended(prev[1])>>)

\* IF_NOT_ERROR has been fused into four terminals of which one is
\* undecided, and a WHILE_NOT_ERROR is handled the same way
FusionResultWitness ==
  /\ Fused
  /\ prev[2].op = op.IF_NOT_ERROR
  /\ Len(Terminals(prev[1])) = 4
  /\ Selecting("both") = 1 /\ Selecting("then") = 2 /\ Selecting("else") = 1
  /\ NextCode(prev[2])[1] # <<>>
  /\ fbc # prev


\* the turn at idx is about a POP_CURR_POS
AtPopCurrPos ==
  pc = "turn" /\ idx <= Len(fbc) /\ err = "" /\ fbc[idx].op = op.POP_CURR_POS

\* the top of st is exactly an OFFSET and is the object st.currPos holds
TopIsCurrPos(st) ==
  /\ Len(st.stack) > 0
  /\ topValue(st).type = TypeTag.OFFSET
  /\ topValue(st).value # 0
  /\ topValue(st).value = st.currPos.value

\* preInterp takes the turn at idx and leaves a POP there
Downgrades ==
  LET Took(h) == h.hit /\ Ok(h.r.st) /\ h.r.bc[idx] = Pop /\ h.r.ip = idx + 1
  IN Took(preInterp(fbc, idx, out))

\* C28: preInterp turns a POP_CURR_POS into POP exactly when the top of the
\* stack is an OFFSET whose identity is currPos's, where stack and currPos
\* are those of the code as it stands: the POP_CURR_POS after a
\* PUSH_CURR_POS that only elements which do not advance the position
\* follow is downgraded, the one that an ACCEPT_N, ACCEPT_STRING, RULE or
\* CALL still in the code precedes is not.
DowngradeByIdentity ==
  (AtPopCurrPos /\ Ok(plain(SubSeq(fbc, 1, idx - 1)).st)) =>
    (Downgrades <=> TopIsCurrPos(plain(SubSeq(fbc, 1, idx - 1)).st))

\* the same against the state the optimizer's interpreter is in
DowngradeByInterpreterIdentity ==
  AtPopCurrPos => (Downgrades <=> TopIsCurrPos(out))

\* a POP_CURR_POS is downgraded although a RULE that is still in the code
\* has advanced the position since the restored position was saved
DowngradedAfterAdvance ==
  /\ AtPopCurrPos /\ Downgrades
  /\ Ok(plain(SubSeq(fbc, 1, idx - 1)).st)
  /\ ~TopIsCurrPos(plain(SubSeq(fbc, 1, idx - 1)).st)
  /\ \E i \in 1..(idx - 1) : fbc[i].op = op.RULE


(***************************************************************************)
(* run() with the visitors, turn by turn, over restores of saved positions *)
(***************************************************************************)
\* the elements between a POP_CURR_POS and what follows it
KillOps ==
  {Pop, PopN(1), PushNull, PushFailed, PushUndefined, PushEmptyString,
   PushEmptyArray, SilentOn, SilentOff, Flat(op.FAIL, <<1>>), PushCurrPos,
   PopCurrPos, Rule(0), AcceptN, Flat(op.NIP, <<>>)}
\* the longest run of such elements
MaxKillLen == 3
\* three positions saved, the input advanced, one position restored
KillPrefix ==
  <<PushCurrPos, PushCurrPos, PushCurrPos, Rule(0), Pop, PopCurrPos>>
\* IF_ERROR on a saved position is decided: its else branch restores it
RestoringConds ==
  {<<PushCurrPos, PushCurrPos, Rule(0), Pop,
     Cond(op.IF_ERROR, <<>>, <<Pop, PushNull>>, <<PopCurrPos>> \o e)>> \o t :
     e \in {<<PushNull>>, <<PushCurrPos>>, <<PushNull, Pop, PushNull>>},
     t \in {<<>>, <<Pop>>, <<Pop, PopCurrPos>>}}
\* a restore at the end of both branches, and one behind the conditional
RestoringBranches ==
  {<<PushCurrPos, PushCurrPos, Rule(0),
     Cond(op.IF_ERROR, <<>>, <<Pop, PopCurrPos>> \o a, <<Pop, PopCurrPos>> \o b),
     PopCurrPos>> :
     a \in {<<>>, <<PushNull, Pop>>}, b \in {<<>>, <<PushNull, Pop>>}}
\* the block of the test 'kill useless POP_CURR_POS when currPos
\* subsequently killed'
KillChain ==
  <<PushCurrPos, AcceptN, PushCurrPos, AcceptN, PushCurrPos, AcceptN, Pop,
    PopCurrPos, Flat(op.FAIL, <<1>>), Pop, Pop, PopCurrPos, Pop, PopCurrPos>>
KillTrees ==
  {t \in {KillPrefix \o m : m \in UNION {[1..n -> KillOps] : n \in 0..MaxKillLen}}
          \cup RestoringConds \cup RestoringBranches \cup {KillChain} :
     Ok(plain(t).st)}

KillInit == TurnInitOn(KillTrees)
SpecKill == KillInit /\ [][TurnNext]_vars

\* the scan of the claim: from ip on only elements that neither read nor
\* set the position, up to a POP_CURR_POS of the same block
KillTransparent ==
  {op.POP, op.POP_N, op.PUSH_NULL, op.PUSH_FAILED, op.PUSH_UNDEFINED,
   op.PUSH_EMPTY_STRING, op.PUSH_EMPTY_ARRAY, op.SILENT_FAILS_ON,
   op.SILENT_FAILS_OFF, op.FAIL}
KilledLater(bc, ip) ==
  \E j \in ip..Len(bc) :
    /\ bc[j].op = op.POP_CURR_POS
    /\ \A i \in ip..(j - 1) : bc[i].op \in KillTransparent

\* postInterp finds a POP_CURR_POS at ip: the turn replaces that element by
\* POP when the position is killed later, and otherwise keeps the block
DeadPopCurrPosStep(r) ==
  r.bc[idx].op = op.POP_CURR_POS =>
    fbc' = IF KilledLater(r.bc, idx + 1)
           THEN [r.bc EXCEPT ![idx] = Pop] ELSE r.bc

\* C29: postInterp replaces the POP_CURR_POS it finds at ip by POP, and
\* changes nothing else, exactly when the scan forward from the next
\* element of the same block reaches another POP_CURR_POS over POP, POP_N,
\* PUSH_NULL, PUSH_FAILED, PUSH_UNDEFINED, PUSH_EMPTY_STRING,
\* PUSH_EMPTY_ARRAY, SILENT_FAILS_ON / OFF and FAIL elements only; the
\* element is kept when the scan first meets the end of the block, a
\* PUSH_CURR_POS or any other opcode.
DeadPopCurrPos ==
  [][ReachesPostInterp => DeadPopCurrPosStep(Interpreted)]_vars

\* the same for the turns in which interp left the block as it was
DeadPopCurrPosOfOwnElement ==
  [][(ReachesPostInterp /\ Interpreted.bc = fbc)
       => DeadPopCurrPosStep(Interpreted)]_vars

\* the branches of an undecided conditional keep the POP_CURR_POS at their
\* end although a POP_CURR_POS follows the conditional
RestoreAtBranchEndKept ==
  (pc = "ran" /\ err = "" /\ prev \in RestoringBranches) =>
    \A k \in 1..2 :
      \E i \in 1..Len(fbc[4].blocks[k]) :
        fbc[4].blocks[k][i].op = op.POP_CURR_POS

\* the collapse of a decided conditional has put a POP_CURR_POS at ip, and
\* the turn has deleted the rest of the branch with it
RestoringBranchDeleted ==
  /\ pc = "turn" /\ err = "" /\ output
  /\ prev = <<PushCurrPos, PushCurrPos, Rule(0), Pop,
              Cond(op.IF_ERROR, <<>>, <<Pop, PushNull>>, <<PopCurrPos, PushNull>>),
              Pop, PopCurrPos>>
  /\ fbc = <<PushCurrPos, PushCurrPos, Rule(0), Pop, Pop, Pop, PopCurrPos>>


\* one run over the chain of three saved positions restored in reverse
\* order leaves exactly one POP_CURR_POS
ChainKeepsOneRestore ==
  (pc = "ran" /\ prev = KillChain) =>
    /\ err = ""
    /\ Cardinality({i \in 1..Len(fbc) : fbc[i].op = op.POP_CURR_POS}) = 1


(***************************************************************************)
(* run() with the visitors, turn by turn, over FAIL elements inside and    *)
(* outside of SILENT_FAILS_ON / OFF                                        *)
(***************************************************************************)
\* branches that push two values, one of them by FAIL
FailBranches ==
  {<<PushNull, PushNull>>, <<PushNull, Fail>>, <<Fail, PushNull>>,
   <<PushNull, Flat(op.FAIL, <<1>>)>>}
\* a conditional on a value that may decide it, and what discards its result
FailConds ==
  {s \o a \o <<Cond(o, <<>>, t, e)>> \o b \o f :
     s \in {<<>>, <<SilentOn>>},
     a \in {<<PushNull>>, <<PushFailed>>, <<Rule(0)>>},
     o \in {op.IF_, op.IF_ERROR}, t \in FailBranches, e \in FailBranches,
     b \in {<<>>, <<Pop>>, <<PopN(2)>>, <<PopN(3)>>},
     f \in {<<>>, <<SilentOff>>}}
FailTrees == {t \in DiscardTrees \cup FailConds : Ok(plain(t).st)}

FailInit == TurnInitOn(FailTrees)
SpecFail == FailInit /\ [][TurnNext]_vars

\* the FAIL elements of a block, in their order
FailsOf(bc) == SelectSeq(bc, LAMBDA e : e.op = op.FAIL)

\* silentFails is 0 at every element between ip and the result's ip
Loud(r) ==
  /\ r.st.silentFails = 0
  /\ \A i \in idx..(r.ip - 1) :
       i <= Len(r.bc) =>
         r.bc[i].op \notin {op.SILENT_FAILS_ON, op.SILENT_FAILS_OFF}

\* postInterp is handed an element without blocks where no failure is
\* silent: the turn leaves every FAIL of the block in place
LoudFailStep(r) ==
  (Loud(r) /\ ~IsConditional(r.bc[idx]) /\ r.bc[idx].op # op.WHILE_NOT_ERROR)
    => FailsOf(fbc') = FailsOf(r.bc)

\* C30: postInterp rewrites FAIL e to PUSH_FAILED, or deletes it together
\* with the POP / POP_N that follows, only when silentFails > 0 at that
\* element; a FAIL reached with silentFails = 0 is neither rewritten to
\* PUSH_FAILED nor deleted by the dead-push rule.
FailTouchedOnlyWhileSilent ==
  [][ReachesPostInterp => LoudFailStep(Interpreted)]_vars

\* the same for the turns in which interp left the block as it was
FailOfOwnElementTouchedOnlyWhileSilent ==
  [][(ReachesPostInterp /\ Interpreted.bc = fbc)
       => LoudFailStep(Interpreted)]_vars

\* [SILENT_FAILS_ON, FAIL 1, SILENT_FAILS_OFF] is left with a PUSH_FAILED,
\* [SILENT_FAILS_ON, FAIL 1, POP, SILENT_FAILS_OFF] with at most two
\* elements
SilentFailRewritten ==
  /\ (pc = "ran" /\ prev = <<SilentOn, Flat(op.FAIL, <<1>>), SilentOff>>)
       => (err = "" /\ \E i \in 1..Len(fbc) : fbc[i] = PushFailed)
  /\ (pc = "ran" /\ prev = <<SilentOn, Flat(op.FAIL, <<1>>), Pop, SilentOff>>)
       => (err = "" /\ Len(bytecode) <= 2)

\* the collapse of a decided conditional has put a push at ip, and with the
\* POP behind the conditional the turn has deleted the FAIL of the branch
\* although no failure is silent
LoudFailDeleted ==
  /\ pc = "turn" /\ err = "" /\ output
  /\ prev = <<PushNull, Cond(op.IF_, <<>>, <<PushNull, PushNull>>,
                             <<PushNull, Fail>>), Pop>>
  /\ fbc = <<PushNull>>
  /\ out.silentFails = 0


(***************************************************************************)
(* cheapBlock applied to short blocks                                      *)
(*                                                                         *)
(* fbc is the block, output what cheapBlock returned for it.               *)
(***************************************************************************)
CheapElements ==
  {Pop, PopN(2), Flat(op.NIP, <<>>), PopCurrPos, PushNull, PushUndefined,
   PushFailed, PushEmptyArray, Flat(op.TEXT, <<>>),
   Flat(op.PLUCK, <<1, 1, 0>>), Flat(op.PLUCK, <<2, 1, 0>>),
   Flat(op.PLUCK, <<2, 2, 0, 1>>), Rule(0), Flat(op.CALL, <<0, 0, 0>>),
   AcceptN, Cond(op.IF_, <<>>, <<>>, <<>>), Loop(<<Pop, PushNull>>)}
\* the longest block handed to cheapBlock
MaxCheapLen == 3
CheapBlocks == UNION {[1..n -> CheapElements] : n \in 0..MaxCheapLen}

CheapInit ==
  /\ pc = "cheap"
  /\ fbc \in CheapBlocks
  /\ output = FALSE
  /\ bytecode = <<>> /\ changes = FALSE /\ out = <<>> /\ err = ""
  /\ nodead = FALSE /\ passes = 0 /\ round = 1 /\ prev = <<>>
  /\ rules = Grammar /\ idx = 0

\* cheapBlock(bc)
Classify ==
  /\ pc = "cheap"
  /\ pc' = "classified"
  /\ output' = cheapBlock(fbc)
  /\ UNCHANGED <<bytecode, fbc, changes, out, err, nodead, passes, round,
                 prev, rules, idx>>

SpecCheap == CheapInit /\ [][Classify]_vars

\* by how much an element of a cheap block changes the depth of the stack
CheapDelta(e) ==
  IF e.op \in {op.POP, op.NIP, op.POP_CURR_POS} THEN -1
  ELSE IF e.op = op.POP_N THEN -Arg(e, 1)
  ELSE IF e.op = op.PLUCK THEN 1 - Arg(e, 1)
  ELSE 1
RECURSIVE CheapDepth(_)
CheapDepth(b) == IF b = <<>> THEN 0 ELSE CheapDelta(Head(b)) + CheapDepth(Tail(b))

CountOps(b, ops) == Cardinality({i \in 1..Len(b) : b[i].op \in ops})

\* C31: cheapBlock(b) is true only if b consists solely of POP, POP_N, NIP,
\* POP_CURR_POS, at most one constant push and at most a single PLUCK with
\* k = 1, and b leaves the stack no deeper than it started; a block with
\* any other opcode at any position, also after a PLUCK, is not cheap.
CheapBlockSound ==
  (pc = "classified" /\ output) =>
    /\ \A i \in 1..Len(fbc) :
         fbc[i].op \in {op.POP, op.POP_N, op.NIP, op.POP_CURR_POS, op.PLUCK,
                        op.PUSH_NULL, op.PUSH_UNDEFINED, op.PUSH_FAILED}
    /\ CountOps(fbc, {op.PUSH_NULL, op.PUSH_UNDEFINED, op.PUSH_FAILED}) <= 1
    /\ CountOps(fbc, {op.PLUCK}) <= 1
    /\ \A i \in 1..Len(fbc) : fbc[i].op = op.PLUCK => Arg(fbc[i], 2) = 1
    /\ CheapDepth(fbc) <= 0

\* the same for the blocks in which no PLUCK and no TEXT occurs
CheapBlockSoundWithoutPluck ==
  (CountOps(fbc, {op.PLUCK, op.TEXT}) = 0) => CheapBlockSound

\* a block with a RULE behind a PLUCK has been classified as cheap
RuleAfterPluckCheap ==
  /\ pc = "classified" /\ output
  /\ fbc = <<Flat(op.PLUCK, <<1, 1, 0>>), Rule(0)>>


(***************************************************************************)
(* Which arrays the visitors of conditional fusion and of pop-chain        *)
(* pushing hand to the terminal branches                                   *)
(*                                                                         *)
(* fbc is the conditional and what follows it, out the state run is in     *)
(* before the conditional, prev the counts of the counting visitor,        *)
(* bytecode the end states of the terminal branches in visiting order,     *)
(* passes the number of terminal branches visited and output, per visited  *)
(* branch, the set of element arrays pushed onto it.  An element array is  *)
(* named by where it was allocated: src "next" is the following element,   *)
(* "then" and "else" are the elements of its branches ("then" of a loop is *)
(* the loop), "copy" is an array formatBytecode made for branch k.         *)
(***************************************************************************)
ShareFirsts ==
  {Match(<<a>>, <<b>>) : a \in FuseProducers, b \in FuseProducers}
  \cup {Match(<<Match(<<a>>, <<b>>)>>, <<c>>) :
          a \in FuseProducers, b \in FuseProducers, c \in FuseProducers}
  \cup {Match(<<a>>, <<Match(<<b>>, <<c>>)>>) :
          a \in FuseProducers, b \in FuseProducers, c \in FuseProducers}
  \cup {Match(<<Match(<<a>>, <<a>>)>>, <<Match(<<b>>, <<c>>)>>) :
          a \in FuseProducers, b \in FuseProducers, c \in FuseProducers}
ShareTrees ==
  {<<a, b>> : a \in ShareFirsts, b \in FuseNexts}
  \cup {<<a>> \o b : a \in ShareFirsts, b \in {<<Pop>>, <<Pop, PopN(1)>>}}

ShareInit ==
  /\ pc = "share"
  /\ fbc \in ShareTrees
  /\ idx = 1
  /\ out = IF fbc[2].op \in PopChainOpcodes
           THEN push(push(InterpState(Grammar, TRUE),
                          [type |-> TypeTag.NULL, value |-> 0]),
                     [type |-> TypeTag.NULL, value |-> 0])
           ELSE InterpState(Grammar, TRUE)
  /\ prev = Counts0
  /\ passes = 0
  /\ output = <<>>
  /\ changes = FALSE
  /\ bytecode = <<>> /\ err = "" /\ nodead = FALSE /\ round = 1
  /\ rules = Grammar

\* the end states of the terminal branches in the order traverseCondState
\* visits them
RECURSIVE CondLeaves(_)
CondLeaves(cs) ==
  IF cs.k = "node" THEN CondLeaves(cs.t) \o CondLeaves(cs.e)
  ELSE IF cs.k = "leaf" THEN <<cs.st>> ELSE <<>>

Array(s, k, i) == [src |-> s, k |-> k, i |-> i]
\* the element arrays of a block of the following element, and those of
\* the following element as a whole
Originals(s, code) == {Array(s, 0, i) : i \in 1..Len(code)}
Copies(k, code) == {Array("copy", k, i) : i \in 1..Len(code)}
NextArrays(next) ==
  {Array("next", 0, 1)}
  \cup IF next.op = op.WHILE_NOT_ERROR THEN {}
       ELSE Originals("then", next.blocks[1]) \cup Originals("else", next.blocks[2])
ThenArrays(next) ==
  IF next.op = op.WHILE_NOT_ERROR THEN NextArrays(next)
  ELSE Originals("then", next.blocks[1])

\* a visitor that copies from the third branch on only
InlineCopiesLate(n) == n > 2
\* numThen > 1 and numElse > 1 decide whether a branch gets a copy
InlineCopies(n) == n > 1

\* what the fusing visitor pushes onto the k-th terminal branch, whose end
\* state is st
InlineArrays(st, k, next, cnt) ==
  LET code == NextCode(next) IN
  IF runThen(next.op, topValue(st))
  THEN IF InlineCopies(cnt.numThen) THEN Copies(k, code[1]) ELSE ThenArrays(next)
  ELSE IF runElse(next.op, topValue(st))
  THEN IF InlineCopies(cnt.numElse) THEN Copies(k, code[2])
       ELSE Originals("else", code[2])
  ELSE NextArrays(next)

\* the counting traversal and the test that allows fusion; a chain of pops
\* needs neither
CountTerminals ==
  /\ pc = "share"
  /\ LET Allowed(cnt) ==
           /\ cnt.err = "" /\ cnt.go
           /\ IF cnt.numUnknown # 0
              THEN cnt.numNonCheapThen = 0 /\ cnt.numNonCheapElse = 0
              ELSE cnt.numNonCheapThen <= 1 /\ cnt.numNonCheapElse <= 1
         Counted(cnt) ==
           /\ prev' = cnt
           /\ changes' = Allowed(cnt)
           /\ pc' = IF Allowed(cnt) THEN "inline" ELSE "kept"
         \* r is the turn of the conditional without what follows it
         Interpd(r) ==
           /\ Ok(r.st)
           /\ bytecode' = CondLeaves(r.cs)
           /\ IF fbc[2].op \in FusableOpcodes
              THEN Counted(CountTraverse(fbc[1], r.cs, fbc[2], Counts0))
              ELSE prev' = prev /\ changes' = TRUE /\ pc' = "chain"
     IN Interpd(run(<<fbc[1]>>, out))
  /\ UNCHANGED <<fbc, out, err, nodead, passes, round, rules, output, idx>>

\* the fusing visitor at the next terminal branch
InlineVisit ==
  /\ pc = "inline"
  /\ passes < Len(bytecode)
  /\ passes' = passes + 1
  /\ output' = Append(output,
       InlineArrays(bytecode[passes + 1], passes + 1,
                    fbc[2], prev))
  /\ UNCHANGED <<pc, bytecode, fbc, changes, out, err, nodead, round, prev,
                 rules, idx>>

\* the pop-chain visitor at the next terminal branch
ChainVisit ==
  /\ pc = "chain"
  /\ passes < Len(bytecode)
  /\ passes' = passes + 1
  /\ output' = Append(output,
       Copies(passes + 1, SubSeq(fbc, 2, ChainEnd(fbc, 3) - 1)))
  /\ UNCHANGED <<pc, bytecode, fbc, changes, out, err, nodead, round, prev,
                 rules, idx>>

\* bytecodeMods takes what followed the conditional out of the block
SpliceFollowing ==
  /\ pc \in {"inline", "chain"}
  /\ passes = Len(bytecode)
  /\ pc' = "spliced"
  /\ UNCHANGED <<bytecode, fbc, changes, out, err, nodead, passes, round,
                 prev, rules, output, idx>>

ShareNext == CountTerminals \/ InlineVisit \/ ChainVisit \/ SpliceFollowing
SpecShare == ShareInit /\ [][ShareNext]_vars

AllTagged(st) == \A i \in 1..Len(st.stack) : st.stack[i].type # 0
\* the same for the end states of the branches a condState holds
RECURSIVE LeavesTagged(_)
LeavesTagged(cs) ==
  IF cs.k = "node" THEN LeavesTagged(cs.t) /\ LeavesTagged(cs.e)
  ELSE IF cs.k = "leaf" THEN AllTagged(cs.st) ELSE TRUE

\* C33: every abstract value on the symbolic stack has a non-empty tag, in
\* the state run is in between two turns and in the end states of the
\* branches of the conditional the next turn interprets, where the top is
\* the one IF, IF_ERROR and IF_NOT_ERROR refined for that branch.
NoEmptyTags ==
  (pc = "turn") =>
    /\ AllTagged(out)
    /\ (idx <= Len(fbc) /\ err = "") =>
         LET Tagged(r) == Ok(r.st) => (AllTagged(r.st) /\ LeavesTagged(r.cs))
         IN Tagged(runTurn(fbc, idx, out, FALSE).r)

\* the turn of an undecided IF on a top with more than one bit: the empty
\* else branch ends with the top refined for it, which is not the top the
\* conditional was entered with
RefinedTopsWitness ==
  /\ pc = "turn" /\ err = "" /\ idx <= Len(fbc)
  /\ fbc[idx].op = op.IF_
  /\ fbc[idx].blocks[2] = <<>>
  /\ ~SingleBit(topValue(out).type)
  /\ LET Differ(r) ==
           /\ Ok(r.st) /\ r.cs.k = "node"
           /\ r.cs.t.k = "leaf" /\ r.cs.e.k = "leaf"
           /\ topValue(r.cs.e.st).type # topValue(out).type
           /\ topValue(r.cs.e.st).type # 0
     IN Differ(runTurn(fbc, idx, out, FALSE).r)


(***************************************************************************)
(* run() with the visitors, turn by turn, over WRAP and PLUCK and the      *)
(* element that follows them, and optimizeBlock on the same block          *)
(***************************************************************************)
PluckPrefixes ==
  {<<PushFailed>>, <<PushFailed, PushNull, PushEmptyArray>>,
   <<Rule(0), PushCurrPos, PushNull>>}
Wraps ==
  {Flat(op.WRAP, <<0>>), Flat(op.WRAP, <<1>>), Flat(op.WRAP, <<2>>),
   Flat(op.WRAP, <<3>>), Flat(op.PLUCK, <<0, 1, 0>>),
   Flat(op.PLUCK, <<1, 1, 0>>), Flat(op.PLUCK, <<2, 1, 0>>),
   Flat(op.PLUCK, <<2, 1, 1>>), Flat(op.PLUCK, <<3, 1, 1>>),
   Flat(op.PLUCK, <<3, 2, 0, 2>>), Flat(op.PLUCK, <<0, 2, 0, 0>>)}
\* what follows: elements that discard the top unread, and others
PluckFollowers ==
  {Pop, PopN(1), PopN(2), Flat(op.PLUCK, <<2, 1, 1>>),
   Flat(op.CALL, <<0, 1, 0>>), PopN(0), PushNull, PopCurrPos,
   Flat(op.TEXT, <<>>), Flat(op.WRAP, <<1>>), Flat(op.CALL, <<0, 1, 1, 0>>)}
PluckTrees ==
  {t \in {a \o <<w, f>> \o b : a \in PluckPrefixes, w \in Wraps,
                               f \in PluckFollowers, b \in {<<>>, <<Pop>>}} :
     Ok(plain(t).st)}

PluckInit == TurnInitOn(PluckTrees)

\* optimizeBlock(ast, bytecode, name) on the block run was given
OptimizeWhole ==
  /\ pc = "ran"
  /\ pc' = "optimized"
  /\ LET Optimized(o) == bytecode' = o.bc /\ err' = o.err
     IN Optimized(optimizeBlock(rules, flattenBc(prev).flat, nodead))
  /\ UNCHANGED <<fbc, changes, out, nodead, passes, round, prev, rules,
                 output, idx>>

PluckNext == RunTurn \/ RunReturn \/ OptimizeWhole
SpecPluck == PluckInit /\ [][PluckNext]_vars

\* the element discards the top of the stack and does not read it
DiscardsTopUnread(e) ==
  \/ e.op = op.POP
  \/ e.op = op.POP_N /\ Arg(e, 1) > 0
  \/ e.op = op.PLUCK /\ Arg(e, 1) > 0
       /\ \A i \in 3..Len(e.args) : e.args[i] # 0
  \/ e.op = op.CALL /\ Arg(e, 2) > 0
       /\ \A i \in 4..Len(e.args) : e.args[i] # 0

\* the turn at idx is that of a WRAP or PLUCK with such an element behind it
AtWrapBeforeKiller ==
  /\ pc = "turn" /\ err = "" /\ idx < Len(fbc)
  /\ fbc[idx].op \in {op.WRAP, op.PLUCK}
  /\ DiscardsTopUnread(fbc[idx + 1])

WithoutElement(bc, i) == SubSeq(bc, 1, i - 1) \o SubSeq(bc, i + 1, Len(bc))

\* C34: the turn of a WRAP n or PLUCK n k ... that is immediately followed
\* by an element which discards the top of the stack without reading it
\* replaces it by PUSH_NULL if n = 0, deletes it if n = 1 and replaces it
\* by POP_N (n - 1) if n > 1; the following element is the next to be
\* interpreted and finds the stack at the depth the WRAP or PLUCK would
\* have left.  optimizeBlock reduces [PUSH_FAILED, PUSH_NULL,
\* PUSH_EMPTY_ARRAY, PLUCK 3 1 1, POP] and [PUSH_FAILED, PLUCK 1 1 0, POP]
\* to [] and [PUSH_FAILED, PLUCK 0 1 0, POP] to [PUSH_FAILED].
WrapPluckBeforeKiller ==
  /\ [][(AtWrapBeforeKiller /\ passes' = passes + 1) =>
          LET n == Arg(fbc[idx], 1) IN
          /\ err' = ""
          /\ output'
          /\ fbc' = IF n = 0 THEN [fbc EXCEPT ![idx] = PushNull]
                    ELSE IF n = 1 THEN WithoutElement(fbc, idx)
                    ELSE [fbc EXCEPT ![idx] = PopN(n - 1)]
          /\ idx' = IF n = 1 THEN idx ELSE idx + 1
          /\ fbc'[idx'] = fbc[idx + 1]
          /\ Len(out'.stack) = Len(out.stack) - n + 1]_vars
  /\ [](pc = "optimized" =>
          /\ prev = <<PushFailed, PushNull, PushEmptyArray,
                      Flat(op.PLUCK, <<3, 1, 1>>), Pop>> => bytecode = <<>>
          /\ prev = <<PushFailed, Flat(op.PLUCK, <<1, 1, 0>>), Pop>>
               => bytecode = <<>>
          /\ prev = <<PushFailed, Flat(op.PLUCK, <<0, 1, 0>>), Pop>>
               => bytecode = <<op.PUSH_FAILED>>)

\* all three rewrites have happened: a WRAP 0 became PUSH_NULL, a PLUCK
\* with n = 1 was deleted or a PLUCK 3 became POP_N 2
WrapPluckWitness ==
  /\ pc = "turn" /\ err = "" /\ output
  /\ \E w \in Wraps :
       /\ Arg(w, 1) = 3
       /\ prev = <<PushFailed, PushNull, PushEmptyArray, w, Pop>>
       /\ fbc = <<PushFailed, PushNull, PushEmptyArray, PopN(2), Pop>>
       /\ idx = 5


(***************************************************************************)
(* run() with the visitors, turn by turn, over elements followed by NIP    *)
(***************************************************************************)
Nip == Flat(op.NIP, <<>>)

NipPrefixes ==
  {<<PushNull, PushCurrPos>>, <<PushFailed, PushEmptyArray, PushNull>>,
   <<Rule(0), PushNull, PushCurrPos, PushEmptyString>>}
PushLike ==
  {PushUndefined, PushNull, PushFailed, PushEmptyArray, PushEmptyString,
   PushCurrPos, Rule(0), AcceptN, Flat(op.ACCEPT_STRING, <<0>>), Fail}
NipFirsts ==
  PushLike \cup
  {Flat(op.CALL, <<0, 0, 0>>), Flat(op.CALL, <<0, 1, 1, 0>>),
   Flat(op.CALL, <<0, 2, 0>>), Flat(op.TEXT, <<>>),
   Flat(op.WRAP, <<0>>), Flat(op.WRAP, <<1>>), Flat(op.WRAP, <<2>>),
   Flat(op.WRAP, <<3>>), Flat(op.PLUCK, <<0, 1, 0>>),
   Flat(op.PLUCK, <<1, 1, 0>>), Flat(op.PLUCK, <<2, 1, 1>>),
   Flat(op.PLUCK, <<2, 2, 0, 1>>), Flat(op.PLUCK, <<3, 1, 2>>)}
NipTrees ==
  {t \in {a \o <<x>> \o f \o b : a \in NipPrefixes, x \in NipFirsts,
                                 f \in {<<Nip>>, <<>>},
                                 b \in {<<>>, <<Pop>>, <<PushNull>>}} :
     Ok(plain(t).st)}

NipInit == TurnInitOn(NipTrees)
SpecNip == NipInit /\ [][TurnNext]_vars

\* what the pair (cur, NIP) becomes
NipFusion(cur) ==
  IF cur \in PushLike THEN <<Pop, cur>>
  ELSE IF cur.op = op.CALL THEN <<[cur EXCEPT !.args[2] = @ + 1]>>
  ELSE IF cur.op = op.TEXT \/ (cur.op = op.WRAP /\ Arg(cur, 1) = 1)
  THEN <<Nip, cur>>
  ELSE IF cur.op = op.WRAP THEN
    LET n == Arg(cur, 1) IN
    <<Flat(op.PLUCK, <<n + 1, n>> \o [i \in 1..n |-> n - i])>>
  ELSE <<[cur EXCEPT !.args[1] = @ + 1]>>

\* the state after interpreting the elements of s, one after the other
AfterElements(s, st) ==
  IF Len(s) = 1 THEN interpFlat(s[1], st)
  ELSE interpFlat(s[2], interpFlat(s[1], st))

SameDepthAndTop(a, b) ==
  /\ a.err = "" /\ b.err = ""
  /\ Len(a.stack) = Len(b.stack)
  /\ topValue(a).type = topValue(b).type

AtNipPair ==
  /\ pc = "turn" /\ err = "" /\ idx < Len(fbc)
  /\ fbc[idx] \in NipFirsts
  /\ fbc[idx + 1] = Nip

\* C35: the turn of a push-like element, CALL, TEXT, WRAP or PLUCK that is
\* followed by NIP replaces the pair: push-like + NIP by POP + that
\* element, CALL + NIP by the CALL discarding one more, TEXT or WRAP 1 + NIP
\* by NIP + TEXT or WRAP 1, WRAP n (n # 1) + NIP by PLUCK n+1 n n-1 ... 0,
\* PLUCK + NIP by the same PLUCK discarding one more; the depth of the
\* stack and the kind of its top after the replacement, and in the state
\* the interpreter goes on with, are those after the original pair.
NipFusionsPreserveStack ==
  [][(AtNipPair /\ passes' = passes + 1) =>
       LET cur == fbc[idx]
           pair == AfterElements(<<cur, Nip>>, out)
       IN
       /\ err' = ""
       /\ output'
       /\ fbc' = SubSeq(fbc, 1, idx - 1) \o NipFusion(cur)
                   \o SubSeq(fbc, idx + 2, Len(fbc))
       /\ idx' = idx + Len(NipFusion(cur))
       /\ SameDepthAndTop(out', pair)
       /\ SameDepthAndTop(AfterElements(NipFusion(cur), out), pair)]_vars

\* a WRAP 2 followed by NIP has become PLUCK 3 2 1 0
NipFusionWitness ==
  /\ pc = "turn" /\ err = "" /\ output
  /\ prev = <<PushFailed, PushEmptyArray, PushNull, Flat(op.WRAP, <<2>>), Nip>>
  /\ fbc = <<PushFailed, PushEmptyArray, PushNull,
             Flat(op.PLUCK, <<3, 2, 1, 0>>)>>
  /\ idx = 5
  /\ Len(out.stack) = 1
  /\ topValue(out).type = TypeTag.ARRAY


(***************************************************************************)
(* run() with the visitors on a block that starts with POP and a push,     *)
(* called by a state whose top is of any kind (a branch of a conditional,  *)
(* the code behind a rule call)                                            *)
(***************************************************************************)
RepushOpcodes ==
  {op.PUSH_UNDEFINED, op.PUSH_NULL, op.PUSH_FAILED, op.PUSH_EMPTY_ARRAY,
   op.PUSH_EMPTY_STRING, op.PUSH_CURR_POS}
RepushTrees ==
  {<<Pop, Flat(o, <<>>)>> \o b :
     o \in RepushOpcodes, b \in {<<>>, <<Pop>>, <<PushNull>>}}
\* the tags of the top: single ones and unions
RepushTops ==
  {TypeTag.UNDEFINED, TypeTag.NULL, TypeTag.FAILED, TypeTag.OFFSET,
   TypeTag.ARRAY, TypeTag.STRING, FalseTypes,
   BitOr(TypeTag.NULL, TypeTag.FAILED), TypeTag.ANY,
   TypeTag.ANY - TypeTag.FAILED}
Untagged(t) == [type |-> t, value |-> 0]

RepushInit ==
  /\ pc = "turn"
  /\ prev \in RepushTrees
  /\ fbc = prev
  /\ idx = 1
  /\ \E below \in {TypeTag.NULL, TypeTag.ANY}, t \in RepushTops :
       out = push(push(InterpState(Grammar, TRUE), Untagged(below)),
                  Untagged(t))
  /\ changes = FALSE
  /\ output = FALSE
  /\ passes = 0
  /\ bytecode = <<>>
  /\ err = ""
  /\ nodead = FALSE
  /\ round = 1
  /\ rules = Grammar

SpecRepush == RepushInit /\ [][TurnNext]_vars

AtPopBeforePush ==
  /\ pc = "turn" /\ err = "" /\ idx < Len(fbc)
  /\ fbc[idx] = Pop
  /\ fbc[idx + 1].op \in RepushOpcodes

\* the top has exactly the tag the push o would push again
ExactlyRepushed(t, o) ==
  \/ o = op.PUSH_UNDEFINED /\ t = TypeTag.UNDEFINED
  \/ o = op.PUSH_NULL /\ t = TypeTag.NULL
  \/ o = op.PUSH_FAILED /\ t = TypeTag.FAILED

\* C36: the turn of a POP that is immediately followed by PUSH_UNDEFINED,
\* PUSH_NULL or PUSH_FAILED deletes the POP together with the push exactly
\* when the top of the abstract stack before the POP has exactly the single
\* tag UNDEFINED, NULL or FAILED respectively; the interpreter's state is
\* then left unchanged and interpretation resumes at the same ip.  In every
\* other case, and always before PUSH_EMPTY_ARRAY, PUSH_EMPTY_STRING and
\* PUSH_CURR_POS, the POP is interpreted and both elements stay.
PopRepushElided ==
  [][(AtPopBeforePush /\ passes' = passes + 1) =>
       IF ExactlyRepushed(topValue(out).type, fbc[idx + 1].op)
       THEN /\ fbc' = SubSeq(fbc, 1, idx - 1) \o SubSeq(fbc, idx + 2, Len(fbc))
            /\ idx' = idx
            /\ out' = out
            /\ output'
            /\ err' = ""
       ELSE /\ fbc' = fbc
            /\ idx' = idx + 1
            /\ out'.stack = SubSeq(out.stack, 1, Len(out.stack) - 1)
            /\ ~output']_vars

\* POP, PUSH_FAILED has been deleted under a top that is exactly FAILED
PopRepushWitness ==
  /\ pc = "turn" /\ err = "" /\ output
  /\ prev = <<Pop, PushFailed, PushNull>>
  /\ fbc = <<PushNull>>
  /\ idx = 1
  /\ topValue(out).type = TypeTag.FAILED


(***************************************************************************)
(* deadSlotRemoval(name, bcs) called on a tree                             *)
(***************************************************************************)
\* the longest block without conditionals
MaxDeadLen == 3
Text == Flat(op.TEXT, <<>>)
DeadOps ==
  {PushNull, PushCurrPos, Rule(0), Pop, PopN(2), Nip, Text,
   Flat(op.WRAP, <<2>>), Flat(op.PLUCK, <<2, 1, 0>>),
   Flat(op.PLUCK, <<2, 1, 1>>), PopCurrPos, Flat(op.CALL, <<0, 1, 1, 0>>)}
DeadFlat == UNION {[1..n -> DeadOps] : n \in 1..MaxDeadLen}

\* a value or two, a conditional or a loop, and a consumer
DeadBranches ==
  {<<>>, <<Pop>>, <<PushNull>>, <<Text>>, <<Nip>>, <<Pop, PushNull>>,
   <<Pop, Rule(0)>>, <<PushNull, PushNull>>, <<PushNull, Pop>>,
   <<PopCurrPos, PushNull>>, <<PushNull, Nip>>}
DeadConds ==
  {Cond(o, CondArgs(o), t, e) :
     o \in {op.IF_ERROR, op.MATCH_CHAR_CLASS}, t \in DeadBranches,
     e \in DeadBranches}
DeadLoops ==
  {Loop(b) : b \in {<<Pop, Rule(0)>>, <<Pop, PushNull>>, <<Text>>, <<Nip, Text>>,
                    <<PushNull, Pop>>, <<PushNull>>}}
DeadStructured ==
  {a \o <<c>> \o b :
     a \in {<<PushNull>>, <<PushNull, PushCurrPos>>, <<Rule(0), Rule(0)>>},
     c \in DeadConds \cup DeadLoops,
     b \in {<<>>, <<Pop>>, <<Nip>>, <<Text>>, <<PopN(2)>>, <<Pop, Pop>>,
            <<Flat(op.PLUCK, <<2, 1, 1>>)>>}}

\* SILENT_FAILS markers around what may fail
MatchCond(t, e) == Cond(op.MATCH_CHAR_CLASS, <<0>>, t, e)
MarkerOps ==
  {SilentOn, SilentOff, PushNull, Pop, Fail, Rule(0), Flat(op.CALL, <<0, 0, 0>>),
   MatchCond(<<Rule(0), Pop>>, <<>>), MatchCond(<<SilentOn, SilentOff>>, <<>>),
   MatchCond(<<SilentOff>>, <<SilentOff>>), MatchCond(<<PushNull, Pop>>, <<>>),
   MatchCond(<<SilentOn>>, <<>>), MatchCond(<<SilentOff, SilentOn>>, <<>>)}
DeadMarked ==
  UNION {[1..n -> MarkerOps] : n \in 1..MaxDeadLen}
  \cup {<<SilentOn, SilentOn, x, SilentOff, SilentOff>> : x \in MarkerOps}
  \cup {<<SilentOn, PushNull, Loop(<<Pop, x>>), Pop, SilentOff>> :
          x \in {PushNull, Rule(0), Fail}}

\* the trees of the tests that expect an Error
DeadInvalid ==
  {<<MatchCond(<<PushEmptyArray, PushEmptyArray>>, <<PushEmptyArray>>)>>,
   <<Flat(op.CALL, <<0, 1, 0>>)>>, <<Flat(op.PLUCK, <<0, 1, 1>>)>>}

DeadTrees == DeadFlat \cup DeadStructured \cup DeadMarked \cup DeadInvalid
Names == {"unbalanced", "pops"}

\* the absIps of the instructions of the slots trackBlock found
KilledInsts(t) ==
  UNION {{t.d.heap[t.found[k]].instructions[j].absIp :
            j \in 1..Len(t.d.heap[t.found[k]].instructions)} :
           k \in 1..Len(t.found)}

DeadInit ==
  /\ pc = "tree"
  /\ prev \in DeadTrees
  /\ fbc = prev
  /\ rules \in Names
  /\ bytecode = {}
  /\ changes = FALSE
  /\ out = {}
  /\ err = ""
  /\ nodead = FALSE
  /\ passes = 0
  /\ round = 1
  /\ output = <<>>
  /\ idx = 0

\* deadSlotRemoval(rules, fbc): the tree as it is left, what is returned,
\* the two parts of the message of the Error thrown, killedSlots and the
\* absIps of the markers in silentGroups
RemoveDeadSlots ==
  /\ pc = "tree"
  /\ pc' = "removed"
  /\ LET Removed(d) ==
           /\ fbc' = d.bcs
           /\ changes' = d.changed
           /\ err' = d.err
           /\ output' = IF d.err = "" THEN <<>> ELSE <<rules, d.err>>
     IN Removed(deadSlotRemoval(fbc))
  /\ LET Tracked(t) ==
           /\ out' = IF t.d.err = "" THEN KilledInsts(t) ELSE {}
           /\ bytecode' = IF t.d.err = "" THEN t.d.silentGroups ELSE {}
     IN Tracked(trackBlock(fbc, <<>>, Tracking0))
  /\ UNCHANGED <<nodead, passes, round, prev, rules, idx>>

SpecDead == DeadInit /\ [][RemoveDeadSlots]_vars

\* Every path through a block, followed with the stack of the absIps of the
\* elements that pushed its slots.  w is [stacks, reads]: the stacks the
\* paths so far end with and the absIps whose slot some element inspected;
\* a is the absIp of the element at ip.  A loop body is followed up to twice.
RECURSIVE PathsFrom(_, _, _, _)
PathsFrom(bcs, ip, a, w) ==
  IF ip > Len(bcs) THEN [stacks |-> w.stacks, reads |-> w.reads, a |-> a + 1]
  ELSE
    LET bc == bcs[ip]
        e == pushPops(bc)
        ReadBy(s) ==
          {s[Len(s) - e.inspects[j]] :
             j \in {i \in 1..Len(e.inspects) : e.inspects[i] < Len(s)}}
        After(s) ==
          SubSeq(s, 1, Len(s) - e.pops) \o (IF e.pushes = 1 THEN <<a>> ELSE <<>>)
        w1 == [stacks |-> {After(s) : s \in {x \in w.stacks : Len(x) >= e.pops}},
               reads |-> w.reads \cup UNION {ReadBy(s) : s \in w.stacks}]
        Tops(ss) == {s[Len(s)] : s \in {x \in ss : Len(x) > 0}}
        In(b) == [stacks |-> b.stacks, reads |-> b.reads]
    IN
    IF ~e.sub THEN PathsFrom(bcs, ip + 1, a + 1, w1)
    ELSE IF bc.op = op.WHILE_NOT_ERROR THEN
      LET b1 == PathsFrom(bc.blocks[1], 1, a + 1, w1)
          b2 == PathsFrom(bc.blocks[1], 1, a + 1,
                          [In(b1) EXCEPT !.reads = @ \cup Tops(b1.stacks)])
      IN PathsFrom(bcs, ip + 1, b1.a,
                   [stacks |-> w1.stacks \cup b1.stacks \cup b2.stacks,
                    reads |-> b2.reads \cup Tops(b2.stacks)])
    ELSE
      LET code == getConditionalCode(bc)
          th == PathsFrom(code[1], 1, a + 1, w1)
          el == PathsFrom(code[2], 1, th.a,
                          [stacks |-> w1.stacks, reads |-> th.reads])
          \* an empty else: what the then branch leaves above the depth of
          \* the else side is dropped at the join
          Cut(s) ==
            IF Len(code[2]) = 0 /\ \A x \in el.stacks : Len(x) < Len(s)
            THEN SubSeq(s, 1, Len(CHOOSE x \in el.stacks : TRUE)) ELSE s
      IN PathsFrom(bcs, ip + 1, el.a,
                   [stacks |-> {Cut(s) : s \in th.stacks} \cup el.stacks,
                    reads |-> el.reads])

\* the absIps of the elements whose pushed slot is inspected on some path
InspectedPushes(bcs) == PathsFrom(bcs, 1, 0, [stacks |-> {<<>>}, reads |-> {}]).reads

\* C37: when deadSlotRemoval has run on a tree, no instruction of a slot it
\* removes pushed a slot that any element inspects on any path through the
\* tree (every consumer of a removed slot is a discard), and the check for
\* a read of a killed slot in applyKills has not fired.
KilledSlotsNeverRead ==
  pc = "removed" =>
    /\ err # "Bytecode read killed slot"
    /\ out \cap InspectedPushes(prev) = {}

\* a slot pushed before a conditional and discarded in both of its
\* branches is removed
KilledSlotsWitness ==
  /\ pc = "removed" /\ err = "" /\ changes
  /\ prev = <<PushNull, PushCurrPos,
              Cond(op.MATCH_CHAR_CLASS, <<0>>, <<Pop>>, <<Pop>>), Text>>
  /\ out # {}


\* The elements of a tree in the order of the traversal: the absIp a of
\* each, its opcode, the count of open SILENT_FAILS_ON markers before it
\* (both branches of a conditional start from the count at the conditional)
\* and the block it lies in, named by the absIp the block starts at.  The
\* result is [es, a, depth].
RECURSIVE EntriesFrom(_, _, _, _, _)
EntriesFrom(bcs, ip, a, depth, block) ==
  IF ip > Len(bcs) THEN [es |-> {}, a |-> a + 1, depth |-> depth]
  ELSE
    LET bc == bcs[ip]
        me == [a |-> a, op |-> bc.op, depth |-> depth, block |-> block]
        after == depth + (IF bc.op = op.SILENT_FAILS_ON THEN 1
                          ELSE IF bc.op = op.SILENT_FAILS_OFF THEN -1 ELSE 0)
        Rest(es, a2, d2) ==
          LET r == EntriesFrom(bcs, ip + 1, a2, d2, block)
          IN [r EXCEPT !.es = @ \cup es \cup {me}]
    IN
    IF Len(bc.blocks) = 0 THEN Rest({}, a + 1, after)
    ELSE IF Len(bc.blocks) = 1 THEN
      LET b == EntriesFrom(bc.blocks[1], 1, a + 1, after, a + 1)
      IN Rest(b.es, b.a, b.depth)
    ELSE
      LET th == EntriesFrom(bc.blocks[1], 1, a + 1, after, a + 1)
          el == EntriesFrom(bc.blocks[2], 1, th.a, after, th.a)
      IN Rest(th.es \cup el.es, el.a, el.depth)

TreeEntries(bcs) == EntriesFrom(bcs, 1, 0, 0, 0).es
SilentMarkers == {op.SILENT_FAILS_ON, op.SILENT_FAILS_OFF}

\* i is an outermost SILENT_FAILS_ON of the tree with the entries es, j its
\* matching SILENT_FAILS_OFF in the same block, and no FAIL, CALL or RULE
\* lies between them at any depth of nesting
CollapsibleGroup(es, i, j) ==
  /\ i.block = j.block /\ i.a < j.a
  /\ i.op = op.SILENT_FAILS_ON /\ i.depth = 0
  /\ j.op = op.SILENT_FAILS_OFF /\ j.depth = 1
  /\ \A r \in es :
       (i.a < r.a /\ r.a < j.a) =>
         /\ r.depth >= 1
         /\ r.op = op.SILENT_FAILS_OFF => r.depth >= 2
         /\ r.op \notin {op.FAIL, op.CALL, op.RULE}

\* C38: when deadSlotRemoval has turned SILENT_FAILS markers into POP_N 0,
\* each of them lies in a group whose outermost SILENT_FAILS_ON and matching
\* SILENT_FAILS_OFF are elements of the same block with no FAIL, CALL or
\* RULE between them at any nesting depth; all the markers of that group,
\* the nested ones included, are turned with it, the tree holds that many
\* markers less, and the pass reports a change.
SilentGroupCollapse ==
  (pc = "removed" /\ err = "") =>
    LET es == TreeEntries(prev)
        Markers(t) == {r \in TreeEntries(t) : r.op \in SilentMarkers}
    IN
    /\ \A m \in bytecode :
         \E i, j \in es :
           /\ CollapsibleGroup(es, i, j)
           /\ i.a <= m /\ m <= j.a
           /\ \A r \in es :
                (i.a <= r.a /\ r.a <= j.a /\ r.op \in SilentMarkers)
                  => r.a \in bytecode
    /\ bytecode \subseteq {r.a : r \in Markers(prev)}
    /\ Cardinality(Markers(fbc)) = Cardinality(Markers(prev)) - Cardinality(bytecode)
    /\ bytecode # {} => changes

\* a group with a nested pair around a push is collapsed as a whole
SilentGroupWitness ==
  /\ pc = "removed" /\ err = "" /\ changes
  /\ prev = <<SilentOn, SilentOn, PushNull, SilentOff, SilentOff>>
  /\ fbc = <<PopN(0), PopN(0), PushNull, PopN(0), PopN(0)>>
  /\ bytecode = {0, 1, 3, 4}


\* The first complaint of a walk that keeps the depth of the stack only:
\* an element first inspects, then pops, then pushes; the branches of a
\* conditional start at the same depth and must end at the same depth,
\* unless the else branch is empty and the then branch ends deeper; a loop
\* body must end at the depth it starts at.  The result is [err, depth].
RECURSIVE DepthFrom(_, _, _)
DepthFrom(bcs, ip, depth) ==
  IF ip > Len(bcs) THEN [err |-> "", depth |-> depth]
  ELSE
    LET bc == bcs[ip]
        e == pushPops(bc)
        after == depth - e.pops + e.pushes
        Raise(m) == [err |-> m, depth |-> depth]
    IN
    IF \E j \in 1..Len(e.inspects) : e.inspects[j] >= depth
    THEN Raise("Looking at a stack slot below the bottom of the stack")
    ELSE IF e.pops > depth THEN Raise("Too many pops")
    ELSE IF ~e.sub THEN DepthFrom(bcs, ip + 1, after)
    ELSE IF bc.op = op.WHILE_NOT_ERROR THEN
      LET b == DepthFrom(bc.blocks[1], 1, after) IN
      IF b.err # "" THEN b
      ELSE IF b.depth # after THEN Raise("Stack mismatch")
      ELSE DepthFrom(bcs, ip + 1, after)
    ELSE
      LET th == DepthFrom(bc.blocks[1], 1, after)
          el == DepthFrom(bc.blocks[2], 1, after)
      IN
      IF th.err # "" THEN th
      ELSE IF el.err # "" THEN el
      ELSE IF th.depth # el.depth
              /\ ~(Len(bc.blocks[2]) = 0 /\ th.depth > el.depth)
      THEN Raise("Stack mismatch")
      ELSE DepthFrom(bcs, ip + 1, el.depth)

DepthErrors ==
  {"Stack mismatch", "Too many pops",
   "Looking at a stack slot below the bottom of the stack"}

\* the traversal was given up before it came to the element the depth walk
\* complains about: at unlike counts of open markers at the end of two
\* branches, or at one of trackBlock's consistency checks
StoppedEarlier ==
  err \in {"Mismatched SILENT_FAILS", "A push pop pair in a single block"}

\* C39: deadSlotRemoval(name, tree) throws an Error whose message is name
\* followed by 'Stack mismatch' when the two branches of a conditional
\* leave tracked stacks of different depth (other than an empty else with
\* a deeper then), by 'Too many pops' when an element discards more slots
\* than the tracked stack holds, and by 'Looking at a stack slot below the
\* bottom of the stack' when an inspected index is >= the tracked depth;
\* it throws none of the three on any other tree.  (The traversal throws
\* at the first complaint it meets.)
DeadSlotInputErrors ==
  pc = "removed" =>
    LET first == DepthFrom(prev, 1, 0).err IN
    /\ (first # "" /\ ~StoppedEarlier) => output = <<rules, first>>
    /\ err \in DepthErrors => (first = err /\ output = <<rules, err>>)
    /\ prev = <<Flat(op.CALL, <<0, 1, 0>>)>> => err = "Too many pops"
    /\ prev = <<Flat(op.PLUCK, <<0, 1, 1>>)>>
         => err = "Looking at a stack slot below the bottom of the stack"
    /\ prev = <<MatchCond(<<PushEmptyArray, PushEmptyArray>>, <<PushEmptyArray>>)>>
         => err = "Stack mismatch"

\* the test's unbalanced conditional raises 'unbalanced: Stack mismatch'
DeadSlotErrorsWitness ==
  /\ pc = "removed"
  /\ rules = "unbalanced"
  /\ prev = <<MatchCond(<<PushEmptyArray, PushEmptyArray>>, <<PushEmptyArray>>)>>
  /\ output = <<"unbalanced", "Stack mismatch">>

\* the traversal gives up at a consistency check on a tree the depth walk
\* has no complaint about: a slot pushed before a conditional that does not
\* look at it, replaced in one branch only and discarded behind the
\* conditional
ConsistencyCheckOnBalancedTree ==
  /\ pc = "removed"
  /\ err = "A push pop pair in a single block"
  /\ prev = <<PushNull, MatchCond(<<Pop, PushNull>>, <<>>), Pop>>
  /\ DepthFrom(prev, 1, 0).err = ""

(***************************************************************************)
(* The order of the passes in optimizeBlock                                *)
(***************************************************************************)
\* C40: every peephole pass is the run of a fresh InterpState with the
\* visitors over the tree; the dead-slot pass is entered only directly
\* after a peephole pass that reported no change, and never when nodead is
\* set; a pass that reports a change is followed by another peephole pass;
\* the loop is left only after a peephole pass without change that is
\* followed by a dead-slot pass without change, or by none when nodead is
\* set; optimizeBlock then returns the input array if no pass reported a
\* change, and flattenBc of the tree otherwise.
DriverPhaseOrder ==
  /\ [][/\ (pc = "run" /\ pc' # "done") =>
             LET ran == run(fbc, InterpState(rules, TRUE)) IN
             /\ fbc' = ran.bc
             /\ ran.changes = (passes' = passes + 1)
             /\ ran.changes = (pc' = "run")
        /\ pc' = "dead" =>
             (pc = "run" /\ ~nodead /\ passes' = passes /\ changes' = changes)
        /\ (pc = "dead" /\ pc' # "done") =>
             LET dead == deadSlotRemoval(fbc) IN
             /\ dead.changed = (pc' = "run")
             /\ dead.changed = (passes' = passes + 1)
             /\ fbc' = IF dead.changed THEN dead.bcs ELSE fbc
        /\ pc' = "run" =>
             \/ pc = "format"
             \/ pc \in {"run", "dead"} /\ passes' = passes + 1 /\ changes'
        /\ pc' = "flatten" =>
             /\ pc = "dead" \/ (pc = "run" /\ nodead)
             /\ passes' = passes /\ changes' = changes
        /\ (pc' = "done" /\ err' = "") =>
             /\ pc = "flatten"
             /\ out' = IF passes = 0 THEN bytecode ELSE flattenBc(fbc).flat
       ]_vars
  /\ [](pc = "dead" => ~nodead)
  /\ [](pc \in {"run", "dead", "flatten"} => (changes <=> passes > 0))

\* the driver is about to enter a dead-slot pass that reports a change,
\* after peephole passes that did
DriverPhaseWitness ==
  /\ pc = "dead" /\ ~nodead /\ passes > 0 /\ round = 1
  /\ deadSlotRemoval(fbc).changed

====
